---------------------------- MODULE Spec2Model ----------------------------
(***************************************************************************)
(* Model of the multi-agent research pipeline of Company_Account_Plan:     *)
(* PlannerAgent, RetrieverAgent, SynthesizerAgent, CriticAgent             *)
(* (src/src/agents/multi_agent.py), their orchestration in                 *)
(* ResearchAgent.answer_multi (src/src/agents/research_agent.py) and the   *)
(* services they call (src/src/services/llm.py, search.py).                *)
(*                                                                         *)
(* A Python str is modelled as a sequence of one-character strings, so     *)
(* that substring tests, lower-casing, strip and splitlines are computed.  *)
(***************************************************************************)
EXTENDS Naturals, Integers, Sequences, FiniteSets, TLC

VARIABLES
    VALID_MODEL,   \* llm._VALID_MODEL, the model selected when the module is imported
    critic,        \* the last CriticAgent.needs_retry call: argument and return value
    planner,       \* the last PlannerAgent.plan call: arguments, generator, return value
    retriever,     \* the last RetrieverAgent.gather_snippets call
    pc,            \* where the running ResearchAgent.answer_multi call stands
    agent,         \* the ResearchAgent: company, years and its VectorIndex
    frame,         \* arguments and local variables of the answer_multi call
    env,           \* the collaborators (text generator, search provider, embedder,
                   \* cache) and the log of the calls made so far
    runtime,       \* what the build and the run fix: numpy's order of equal scores,
                   \* the entropy an unseeded generator would draw from
    trial,         \* calls made on the agent's VectorIndex one by one: the last
                   \* call and its outcome, and the index of a second run that is
                   \* given the same calls
    llm,           \* the last call_gemini call: prompt, generator, return value
    store,         \* the company's cache directory and what the web holds for it
    report,        \* the last ResearchAgent.generate_report_multi call
    session        \* st.session_state of the chat UI and the last answer_multi
                   \* call the UI made

calls == <<critic, planner, retriever>>

pipeline == <<pc, agent, frame, env>>

others == <<llm, store, report, session>>

bench == <<runtime, trial, others>>

vars == <<VALID_MODEL, critic, planner, retriever, pc, agent, frame, env, runtime, trial,
          llm, store, report, session>>

(***************************************************************************)
(* Text helpers (Python str operations)                                    *)
(***************************************************************************)
LowerLetters == <<"a", "b", "c", "d", "e", "f", "g", "h", "i", "j", "k", "l", "m",
                  "n", "o", "p", "q", "r", "s", "t", "u", "v", "w", "x", "y", "z">>

UpperLetters == <<"A", "B", "C", "D", "E", "F", "G", "H", "I", "J", "K", "L", "M",
                  "N", "O", "P", "Q", "R", "S", "T", "U", "V", "W", "X", "Y", "Z">>

Digits == {"0", "1", "2", "3", "4", "5", "6", "7", "8", "9"}

Whitespace == {" ", "\n", "\t", "\r"}

LineBreaks == {"\n", "\r"}

Range(s) == {s[i] : i \in 1..Len(s)}

\* All sequences over S of length at most n.
SeqsUpTo(S, n) == UNION {[1..k -> S] : k \in 0..n}

\* s[i..] starts with p.
StartsAt(s, p, i) ==
    /\ i >= 1
    /\ i + Len(p) - 1 <= Len(s)
    /\ \A j \in 1..Len(p) : s[i + j - 1] = p[j]

\* Python  p in s .
Contains(s, p) == \E i \in 1..(Len(s) + 1) : StartsAt(s, p, i)

\* Python  str.lower()  on one character.
LowerChar(c) ==
    IF \E i \in 1..26 : UpperLetters[i] = c
    THEN LowerLetters[CHOOSE i \in 1..26 : UpperLetters[i] = c]
    ELSE c

\* Python  str.lower() .
LowerStr(s) == [i \in 1..Len(s) |-> LowerChar(s[i])]

Min(S) == CHOOSE x \in S : \A y \in S : x <= y

Max(S) == CHOOSE x \in S : \A y \in S : x >= y

\* Marks a dropped position while a sequence of characters is rebuilt.
Nul == ""

NotNul(c) == c # Nul

\* Python  s.replace(pat, rep) , for the patterns the code replaces: pat cannot
\* overlap itself (so every occurrence is replaced) and rep has at most one
\* character.
Replace(s, pat, rep) ==
    LET found == {i \in 1..Len(s) : StartsAt(s, pat, i)}
        piece(i) == IF i \in found THEN (IF rep = <<>> THEN Nul ELSE rep[1])
                    ELSE IF \E m \in found : m < i /\ i < m + Len(pat) THEN Nul
                    ELSE s[i]
    IN  SelectSeq([i \in 1..Len(s) |-> piece(i)], NotNul)

\* Python  str.strip() .
Strip(s) ==
    LET keep == {i \in 1..Len(s) : s[i] \notin Whitespace}
    IN  IF keep = {} THEN <<>> ELSE SubSeq(s, Min(keep), Max(keep))

\* Python  str.splitlines() : a line ends at "\n", "\r" or "\r\n"; the text
\* after the last line end is a line unless it is empty.
SplitLines(s) ==
    LET ends == {i \in 1..Len(s) :
                    /\ s[i] \in LineBreaks
                    /\ ~(s[i] = "\r" /\ i < Len(s) /\ s[i + 1] = "\n")}
        n == Cardinality(ends)
        endAt(k) == CHOOSE e \in ends : Cardinality({x \in ends : x < e}) = k - 1
        startOf(k) == IF k = 1 THEN 1 ELSE endAt(k - 1) + 1
        stopOf(k) == LET e == endAt(k)
                     IN  IF s[e] = "\n" /\ e > 1 /\ s[e - 1] = "\r" THEN e - 2 ELSE e - 1
        rest == IF n = 0 THEN 1 ELSE endAt(n) + 1
    IN  [k \in 1..n |-> SubSeq(s, startOf(k), stopOf(k))]
        \o (IF rest <= Len(s) THEN <<SubSeq(s, rest, Len(s))>> ELSE <<>>)

\* The escapes  .replace("\\(", "(").replace("\\)", ")").replace("\\*", "*")
\* .replace("\\-", "-").replace("\\#", "#")  shared by call_gemini and _clean.
Unescape(text) ==
    Replace(Replace(Replace(Replace(Replace(text,
        <<"\\", "(">>, <<"(">>),
        <<"\\", ")">>, <<")">>),
        <<"\\", "*">>, <<"*">>),
        <<"\\", "-">>, <<"-">>),
        <<"\\", "#">>, <<"#">>)

(***************************************************************************)
(* services/llm.py: the text-generation wrapper call_gemini                *)
(***************************************************************************)
\* GEMINI_MODEL = os.getenv("GEMINI_MODEL", "gemini-1.5-flash-latest")
GEMINI_MODEL ==
    <<"g", "e", "m", "i", "n", "i", "-", "1", ".", "5", "-", "f", "l", "a",
      "s", "h", "-", "l", "a", "t", "e", "s", "t">>

\* The candidates listed the other way round.
CandidatesReversed == <<
    <<"g", "e", "m", "i", "n", "i", "-", "f", "l", "a", "s", "h", "-", "l", "a", "t", "e", "s", "t">>,
    <<"g", "e", "m", "i", "n", "i", "-", "2", ".", "0", "-", "f", "l", "a", "s", "h">>,
    <<"g", "e", "m", "i", "n", "i", "-", "1", ".", "5", "-", "f", "l", "a", "s", "h", "-", "l", "a", "t", "e", "s", "t">> >>

FLASH_CANDIDATES == <<
    <<"g", "e", "m", "i", "n", "i", "-", "1", ".", "5", "-", "f", "l", "a", "s", "h", "-", "l", "a", "t", "e", "s", "t">>,
    <<"g", "e", "m", "i", "n", "i", "-", "2", ".", "0", "-", "f", "l", "a", "s", "h">>,
    <<"g", "e", "m", "i", "n", "i", "-", "f", "l", "a", "s", "h", "-", "l", "a", "t", "e", "s", "t">> >>

ModelsPrefix == <<"m", "o", "d", "e", "l", "s", "/">>

ALLOWED_TOPICS == <<
    <<"r", "e", "v", "e", "n", "u", "e">>,
    <<"g", "r", "o", "w", "t", "h">>,
    <<"f", "i", "n", "a", "n", "c", "i", "a", "l">>,
    <<"m", "a", "r", "k", "e", "t">>,
    <<"c", "o", "m", "p", "e", "t", "i", "t", "o", "r", "s">>,
    <<"p", "r", "o", "d", "u", "c", "t", "s">>,
    <<"s", "w", "o", "t">>,
    <<"a", "c", "c", "o", "u", "n", "t", " ", "p", "l", "a", "n">>,
    <<"s", "t", "r", "a", "t", "e", "g", "y">>,
    <<"s", "t", "a", "k", "e", "h", "o", "l", "d", "e", "r", "s">>,
    <<"p", "r", "o", "f", "i", "t">>,
    <<"m", "a", "r", "g", "i", "n">>,
    <<"e", "b", "i", "t", "d", "a">>,
    <<"f", "o", "r", "e", "c", "a", "s", "t">>,
    <<"p", "r", "i", "c", "i", "n", "g">>,
    <<"s", "a", "l", "e", "s">>,
    <<"c", "u", "s", "t", "o", "m", "e", "r">> >>

\* validate_question(text)
ValidateQuestion(text) ==
    LET t == LowerStr(text)
    IN  \/ Contains(t, <<"s", "t", "r", "u", "c", "t", "u", "r", "e", "d", " ", "a", "c", "c",
                      "o", "u", "n", "t", " ", "p", "l", "a", "n", " ", "s", "e", "c", "t",
                      "i", "o", "n", "s">>)
        \/ Contains(t, <<"c", "r", "e", "a", "t", "e", " ", "s", "t", "r", "u", "c", "t", "u",
                      "r", "e", "d", " ", "a", "c", "c", "o", "u", "n", "t", " ", "p", "l",
                      "a", "n">>)
        \/ \E k \in 1..Len(ALLOWED_TOPICS) : Contains(t, ALLOWED_TOPICS[k])

\* _normalize_model_name(name)
NormalizeModelName(name) == Replace(name, ModelsPrefix, <<>>)

\* _pick_valid_model(preferred), given what genai.list_models() yields
\* (the empty list when listing fails: _available_generate_models catches).
PickValidModel(preferred, available) ==
    LET normalized == {NormalizeModelName(available[i]) : i \in 1..Len(available)}
        flash == {k \in 1..Len(FLASH_CANDIDATES) : FLASH_CANDIDATES[k] \in normalized}
    IN  IF preferred \in normalized THEN ModelsPrefix \o preferred
        ELSE IF flash # {} THEN ModelsPrefix \o FLASH_CANDIDATES[Min(flash)]
        ELSE IF Len(available) > 0 THEN available[1]
        ELSE ModelsPrefix \o preferred

OffTopicMsg ==
    <<"(", "Y", "o", "u", "r", " ", "q", "u", "e", "s", "t", "i", "o", "n",
      " ", "s", "e", "e", "m", "s", " ", "u", "n", "r", "e", "l", "a", "t",
      "e", "d", " ", "t", "o", " ", "a", "c", "c", "o", "u", "n", "t", " ",
      "p", "l", "a", "n", "n", "i", "n", "g", ".", " ", "P", "l", "e", "a",
      "s", "e", " ", "a", "s", "k", " ", "r", "e", "l", "e", "v", "a", "n",
      "t", " ", "q", "u", "e", "s", "t", "i", "o", "n", "s", ".", ")">>

\* f"(LLM 429: quota exceeded. Details: {e})"
QuotaMsg(e) ==
    <<"(", "L", "L", "M", " ", "4", "2", "9", ":", " ", "q", "u", "o", "t",
      "a", " ", "e", "x", "c", "e", "e", "d", "e", "d", ".", " ", "D", "e",
      "t", "a", "i", "l", "s", ":", " ">>
    \o e \o <<")">>

\* f"(LLM 404: {_VALID_MODEL} not found; fallback {alt} failed: {e2})"
NotFoundMsg(vm, alt, e2) ==
    <<"(", "L", "L", "M", " ", "4", "0", "4", ":", " ">> \o vm
    \o <<" ", "n", "o", "t", " ", "f", "o", "u", "n", "d", ";", " ", "f", "a",
       "l", "l", "b", "a", "c", "k", " ">>
    \o alt \o <<" ", "f", "a", "i", "l", "e", "d", ":", " ">> \o e2 \o <<")">>

\* f"(LLM error on {_VALID_MODEL}: {e})"
ErrorMsg(vm, e) ==
    <<"(", "L", "L", "M", " ", "e", "r", "r", "o", "r", " ", "o", "n", " ">> \o vm
    \o <<":", " ">> \o e \o <<")">>

\* _invoke(model_name) when generate_content returns: resp.text or "", unescaped.
InvokeText(outcome) == Unescape(outcome.text)

\* A call_gemini without the  except NotFound  branch.
CallGeminiNoReresolve(vm, user_prompt, gen) ==
    IF ~ValidateQuestion(user_prompt)
    THEN [text |-> OffTopicMsg, invoked |-> <<>>, picks |-> 0]
    ELSE IF gen.outs[1].kind = "ok"
    THEN [text |-> InvokeText(gen.outs[1]), invoked |-> <<vm>>, picks |-> 0]
    ELSE [text |-> ErrorMsg(vm, gen.outs[1].text), invoked |-> <<vm>>, picks |-> 0]

\* call_gemini(system_prompt, user_prompt) under the selected model vm.
\* gen.outs[i] is what the i-th generate_content call of this call_gemini does:
\* [kind |-> "ok", text |-> resp.text] or a raise of kind "quota"
\* (ResourceExhausted), "notfound" (NotFound) or "error" (any other Exception),
\* text then being the exception's message; gen.available is what
\* genai.list_models() yields if the model is re-resolved.
\* Returns the string, the model names invoked in order and the number of
\* _pick_valid_model calls.  No path raises.
CallGemini(vm, user_prompt, gen) ==
    IF ~ValidateQuestion(user_prompt)
    THEN [text |-> OffTopicMsg, invoked |-> <<>>, picks |-> 0]
    ELSE LET first == gen.outs[1] IN
        CASE first.kind = "ok" ->
                [text |-> InvokeText(first), invoked |-> <<vm>>, picks |-> 0]
          [] first.kind = "quota" ->
                LET good == {k \in 1..Len(FLASH_CANDIDATES) : gen.outs[k + 1].kind = "ok"}
                    last == IF good = {} THEN Len(FLASH_CANDIDATES) ELSE Min(good)
                    tried == [k \in 1..last |-> ModelsPrefix \o FLASH_CANDIDATES[k]]
                IN  [text |-> IF good = {} THEN QuotaMsg(first.text)
                              ELSE InvokeText(gen.outs[last + 1]),
                     invoked |-> <<vm>> \o tried, picks |-> 0]
          [] first.kind = "notfound" ->
                LET alt == PickValidModel(GEMINI_MODEL, gen.available)
                    second == gen.outs[2]
                IN  [text |-> IF second.kind = "ok" THEN InvokeText(second)
                              ELSE NotFoundMsg(vm, alt, second.text),
                     invoked |-> <<vm, alt>>, picks |-> 1]
          [] OTHER ->
                [text |-> ErrorMsg(vm, first.text), invoked |-> <<vm>>, picks |-> 0]

(***************************************************************************)
(* CriticAgent                                                             *)
(***************************************************************************)
NoAnswerMarker == <<"(", "N", "o", " ", "a", "n", "s", "w", "e", "r", ")">>

\* bad = ["[Insert", "Cite Source]", "Not available", "(Overview)"]
BadMarkers == <<
    <<"[", "I", "n", "s", "e", "r", "t">>,
    <<"C", "i", "t", "e", " ", "S", "o", "u", "r", "c", "e", "]">>,
    <<"N", "o", "t", " ", "a", "v", "a", "i", "l", "a", "b", "l", "e">>,
    <<"(", "O", "v", "e", "r", "v", "i", "e", "w", ")">> >>

\* Regex \w at position k of t (positions outside t are not word characters).
WordAt(t, k) ==
    /\ k \in 1..Len(t)
    /\ t[k] \in Range(LowerLetters) \cup Range(UpperLetters) \cup Digits \cup {"_"}

\* Regex \b between positions k-1 and k of t.
WordBoundary(t, k) == WordAt(t, k - 1) # WordAt(t, k)

\* Regex alternative  \b(19|20)\d{2}\b  matching at position i.
YearAt(t, i) ==
    /\ i + 3 <= Len(t)
    /\ WordBoundary(t, i)
    /\ \/ t[i] = "1" /\ t[i + 1] = "9"
       \/ t[i] = "2" /\ t[i + 1] = "0"
    /\ t[i + 2] \in Digits
    /\ t[i + 3] \in Digits
    /\ WordBoundary(t, i + 4)

\* A plausible slip: the regex without its second alternative.
SearchYearOnly(t) == \E i \in 1..Len(t) : YearAt(t, i)

\* re.search(r"\b(19|20)\d{2}\b|\d", answer_text) finds a match.
SearchYearOrDigit(t) == \E i \in 1..Len(t) : YearAt(t, i) \/ t[i] \in Digits

\* CriticAgent.needs_retry(answer_text)
NeedsRetry(answer_text) ==
    IF Len(answer_text) = 0 \/ Contains(answer_text, NoAnswerMarker)
    THEN TRUE
    ELSE IF \E b \in 1..Len(BadMarkers) : Contains(answer_text, BadMarkers[b])
    THEN TRUE
    ELSE ~SearchYearOrDigit(answer_text)

(***************************************************************************)
(* PlannerAgent                                                            *)
(***************************************************************************)
\* ["use kb", "from cached", "from pdf", "from overview"]
KbTriggers == <<
    <<"u", "s", "e", " ", "k", "b">>,
    <<"f", "r", "o", "m", " ", "c", "a", "c", "h", "e", "d">>,
    <<"f", "r", "o", "m", " ", "p", "d", "f">>,
    <<"f", "r", "o", "m", " ", "o", "v", "e", "r", "v", "i", "e", "w">> >>

\* A plausible slip: the trigger test without  .lower() .
CacheOnlySignalCaseSensitive(user_prompt) ==
    \E k \in 1..Len(KbTriggers) : Contains(user_prompt, KbTriggers[k])

\* any(k in user_prompt.lower() for k in [...])
CacheOnlySignal(user_prompt) ==
    \E k \in 1..Len(KbTriggers) : Contains(LowerStr(user_prompt), KbTriggers[k])

\* The prompt plan() sends.  Its fixed instruction sentences are left out:
\* they contain none of ALLOWED_TOPICS and end with a newline, so
\* validate_question decides on the two interpolated lines alone.
PlannerPrompt(company, user_prompt) ==
    <<"C", "o", "m", "p", "a", "n", "y", ":", " ">> \o company
    \o <<"\n", "U", "s", "e", "r", " ", "r", "e", "q", "u", "e", "s", "t", ":",
       " ">>
    \o user_prompt \o <<"\n">>

\* The four template queries of the fallback.
TemplateQueries(company, user_prompt) ==
    LET base == Strip(company)
        up == Strip(user_prompt)
    IN  << base \o <<" ">> \o up \o
              <<" ", "l", "a", "t", "e", "s", "t", " ", "f", "i", "g", "u", "r", "e",
              "s">>,
           base \o
              <<" ", "s", "e", "g", "m", "e", "n", "t", " ", "r", "e", "v", "e", "n",
              "u", "e", " ", "b", "y", " ", "p", "r", "o", "d", "u", "c", "t", " ",
              "l", "a", "s", "t", " ", "y", "e", "a", "r">>,
           base \o
              <<" ", "t", "o", "p", " ", "p", "r", "o", "d", "u", "c", "t", "s", " ",
              "r", "e", "v", "e", "n", "u", "e", " ">> \o up,
           base \o
              <<" ", "a", "n", "n", "u", "a", "l", " ", "r", "e", "p", "o", "r", "t",
              " ", "p", "r", "o", "d", "u", "c", "t", " ", "r", "e", "v", "e", "n",
              "u", "e", " ", "b", "r", "e", "a", "k", "d", "o", "w", "n">> >>

\* Follow-ups that quote the prompt would be one string shorter.
TwoFollowups == <<
    <<"S", "h", "o", "u", "l", "d", " ", "I", " ", "g", "o", " ", "o", "n", "?">>,
    <<"A", "n", "y", "t", "h", "i", "n", "g", " ", "e", "l", "s", "e", "?">> >>

Followups == <<
    <<"S", "h", "o", "u", "l", "d", " ", "I", " ", "c", "o", "m", "p", "a",
      "r", "e", " ", "t", "h", "e", " ", "l", "a", "s", "t", " ", "3", " ",
      "y", "e", "a", "r", "s", " ", "o", "r", " ", "f", "o", "c", "u", "s",
      " ", "o", "n", " ", "t", "h", "e", " ", "l", "a", "t", "e", "s", "t",
      " ", "y", "e", "a", "r", "?">>,
    <<"D", "o", " ", "y", "o", "u", " ", "w", "a", "n", "t", " ", "p", "r",
      "o", "d", "u", "c", "t", "-", "l", "e", "v", "e", "l", " ", "r", "e",
      "v", "e", "n", "u", "e", " ", "o", "r", " ", "s", "e", "g", "m", "e",
      "n", "t", "-", "l", "e", "v", "e", "l", " ", "r", "e", "v", "e", "n",
      "u", "e", "?">>,
    <<"S", "h", "o", "u", "l", "d", " ", "I", " ", "i", "n", "c", "l", "u",
      "d", "e", " ", "c", "o", "m", "p", "e", "t", "i", "t", "o", "r", " ",
      "b", "e", "n", "c", "h", "m", "a", "r", "k", "s", " ", "f", "o", "r",
      " ", "c", "o", "n", "t", "e", "x", "t", "?">> >>

NonEmpty(l) == l # <<>>

\* [l.strip() for l in qtext.splitlines() if l.strip()]
NonBlankLines(qtext) ==
    LET raw == SplitLines(qtext)
    IN  SelectSeq([i \in 1..Len(raw) |-> Strip(raw[i])], NonEmpty)

\* A plausible slip: an off-by-one slice.
FirstFive(lines) == SubSeq(lines, 1, Min({5, Len(lines)}))

\* lines[:4]
FirstFour(lines) == SubSeq(lines, 1, Min({4, Len(lines)}))

\* PlannerAgent.plan(company, user_prompt, kb_ready), reply being what
\* call_gemini returned.  call_gemini returns a string on every path, so the
\* except branch of plan (lines = []) is never entered.
Plan(company, user_prompt, kb_ready, reply) ==
    LET need_fresh_search == ~(kb_ready /\ CacheOnlySignal(user_prompt))
        parsed == NonBlankLines(reply.text)
        lines == IF parsed = <<>> THEN TemplateQueries(company, user_prompt)
                 ELSE parsed
    IN  [need_fresh_search |-> need_fresh_search,
         search_queries |-> FirstFour(lines),
         followups |-> Followups]

(***************************************************************************)
(* services/search.py and RetrieverAgent                                   *)
(***************************************************************************)
\* normalize_url(url): url.strip() if url else url  (None is modelled as "").
NormalizeUrl(url) == IF url = <<>> THEN url ELSE Strip(url)

\* One organic result as serpapi_google_search / google_cse_search return it
\* (displayUrl is left out: no agent reads it).
SearchResult(item) ==
    [name |-> item.title, url |-> NormalizeUrl(item.link), snippet |-> item.snippet]

\* web_search(q, count) or []  when the provider answered: response.kind = "ok".
\* A response of kind "raise" is requests.get / raise_for_status / r.json()
\* raising; neither web_search nor the provider functions catch it.
WebSearchHits(response) ==
    [h \in 1..Len(response.items) |-> SearchResult(response.items[h])]

\* if item["url"]
HasUrl(item) == item.url # <<>>

\* for h in hits: ... if item["url"]: results.append(item)
KeepWithUrl(hits) == SelectSeq(hits, HasUrl)

RECURSIVE CollectFrom(_, _)
\* The first loop of gather_snippets over responses i, i+1, ... (none raising).
CollectFrom(responses, i) ==
    IF i > Len(responses) THEN <<>>
    ELSE KeepWithUrl(WebSearchHits(responses[i])) \o CollectFrom(responses, i + 1)

RECURSIVE DedupFrom(_, _, _)
DedupFrom(results, i, seen) ==
    IF i > Len(results) THEN <<>>
    ELSE IF results[i].url \in seen THEN DedupFrom(results, i + 1, seen)
    ELSE <<results[i]>> \o DedupFrom(results, i + 1, seen \cup {results[i].url})

\* A plausible slip: the later occurrence of a URL replaces the earlier one.
DedupKeepLast(results) ==
    SelectSeq([i \in 1..Len(results) |->
                  IF \E j \in (i + 1)..Len(results) : results[j].url = results[i].url
                  THEN [name |-> <<>>, url |-> <<>>, snippet |-> <<>>]
                  ELSE results[i]],
              HasUrl)

\* seen, uniq = set(), []; for r in results: if u not in seen: ...
DedupByUrl(results) == DedupFrom(results, 1, {})

\* The cap of gather_snippets.
MaxSnippets == 20

\* A plausible slip: an off-by-one cap.
CapPlusOne(uniq) == SubSeq(uniq, 1, Min({MaxSnippets + 1, Len(uniq)}))

\* uniq[:20]
Cap(uniq) == SubSeq(uniq, 1, Min({MaxSnippets, Len(uniq)}))

\* RetrieverAgent.gather_snippets(queries), responses[i] being what web_search
\* does for queries[i].  sent lists the queries handed to web_search.  The
\* first raising search ends the loop and the call: gather_snippets has no
\* try/except, so the exception leaves it.
GatherSnippets(queries, responses) ==
    LET fails == {i \in 1..Len(queries) : responses[i].kind = "raise"}
    IN  IF fails # {}
        THEN [raised |-> TRUE, sent |-> SubSeq(queries, 1, Min(fails)), result |-> <<>>]
        ELSE [raised |-> FALSE, sent |-> queries,
              result |-> Cap(DedupByUrl(CollectFrom(responses, 1)))]

(***************************************************************************)
(* services/index.py: VectorIndex                                          *)
(*                                                                         *)
(* A VectorIndex is [texts, metadatas, vectors, dim]; vectors is the       *)
(* sequence of the rows of self.vectors, <<>> standing for None (add never *)
(* stores a matrix without rows).  A row is [width, v, pos]: width the     *)
(* number of columns, v the direction of the vector as a pair of small     *)
(* naturals, pos the position in texts of the text the row was embedded    *)
(* from (bookkeeping of the model: numpy keeps no such field).             *)
(***************************************************************************)
\* The width of a vector of OPENAI_EMBED_MODEL, "text-embedding-3-small".
RealDim == 1536

\* self.dim = 512 of the random fallback embedding.
FallbackDim == 512

\* search(query, k = 5)
TopK == 5

\* client.embeddings.create(...) answering: the vector of a text.  The service
\* maps equal texts to equal vectors, all of one length.
RealVec(text) ==
    IF text = <<"a">> THEN <<5, 0>>
    ELSE IF text = <<"b">> THEN <<4, 3>>
    ELSE IF text = <<"c">> THEN <<0, 5>>
    ELSE <<3, 4>>

\* np.random.default_rng(42).random((n, 512)): the generator is seeded anew in
\* every call and fills the matrix row by row, so row i is the same in every
\* call, whatever n.
FixedStream == << <<2, 3>>, <<1, 4>>, <<4, 1>>, <<1, 1>> >>

\* A generator seeded from the entropy of the run instead.
UnseededRow(i, entropy) == FixedStream[((i + entropy) % Len(FixedStream)) + 1]

\* Row i of the fallback matrix: the seed is 42, the entropy is not consulted.
FallbackRow(i, entropy) == FixedStream[i]

\* VectorIndex._embed(texts) in a runtime rt = [embedder, entropy, argsort]:
\* the embedder answers ("ok") or is missing or raises ("fails"); neither case
\* raises.  Returns the matrix and the value it leaves in self.dim.
Embed(texts, rt) ==
    IF rt.embedder = "ok"
    THEN [dim |-> RealDim,
          rows |-> [i \in 1..Len(texts) |-> [width |-> RealDim, v |-> RealVec(texts[i])]]]
    ELSE [dim |-> FallbackDim,
          rows |-> [i \in 1..Len(texts) |->
                       [width |-> FallbackDim, v |-> FallbackRow(i, rt.entropy)]]]

\* VectorIndex.__init__
EmptyIndex == [texts |-> <<>>, metadatas |-> <<>>, vectors |-> <<>>, dim |-> 0]

\* An add that stores the new chunks in place of the old ones.
AddReplacing(index, texts, metadatas, rt) ==
    [raised |-> FALSE,
     index |-> [texts |-> texts, metadatas |-> metadatas, dim |-> Embed(texts, rt).dim,
                vectors |-> [i \in 1..Len(texts) |->
                                Embed(texts, rt).rows[i] @@ [pos |-> i]]]]

\* VectorIndex.add(texts, metadatas).  texts and metadatas are extended before
\* np.vstack, which raises ValueError when the new rows have another width
\* than the stored ones; nothing in add catches it.
IndexAdd(index, texts, metadatas, rt) ==
    IF texts = <<>> THEN [raised |-> FALSE, index |-> index]
    ELSE LET embeds == Embed(texts, rt)
             rows == [i \in 1..Len(texts) |->
                         embeds.rows[i] @@ [pos |-> Len(index.texts) + i]]
             extended == [index EXCEPT !.dim = embeds.dim,
                                       !.texts = @ \o texts,
                                       !.metadatas = @ \o metadatas]
         IN  IF index.vectors = <<>>
             THEN [raised |-> FALSE, index |-> [extended EXCEPT !.vectors = rows]]
             ELSE IF index.vectors[1].width # embeds.dim
             THEN [raised |-> TRUE, index |-> extended]
             ELSE [raised |-> FALSE, index |-> [extended EXCEPT !.vectors = @ \o rows]]

Dot(u, v) == u[1] * v[1] + u[2] * v[2]

\* sims[i] = (row @ qv) / (|row| |qv| + 1e-8), kept exactly as the dot product
\* and the squared length of the row (|qv| is the same for every row; the
\* 1e-8 is left out: no vector here is zero and no two differ only in length).
Similarity(row, qv) == [dot |-> Dot(row.v, qv), norm2 |-> Dot(row.v, row.v)]

\* sims[i] < sims[j], the entries of the vectors not being negative.
ScoreLess(s, t) == s.dot * s.dot * t.norm2 < t.dot * t.dot * s.norm2

\* np.argsort(-sims): the positions by descending score.  The default kind is
\* "quicksort", which is not stable: the order of equal scores depends on the
\* numpy build; argsort names what the build does with them, keep them in
\* order ("stable") or not ("reverse").
Argsort(sims, argsort) ==
    LET n == Len(sims)
        first(i, j) == \/ ScoreLess(sims[j], sims[i])
                       \/ /\ ~ScoreLess(sims[i], sims[j])
                          /\ IF argsort = "stable" THEN i < j ELSE i > j
        rank(i) == Cardinality({j \in 1..n : first(j, i)}) + 1
    IN  [r \in 1..n |-> CHOOSE i \in 1..n : rank(i) = r]

\* VectorIndex.search(query, k), k >= 0.  self.vectors @ qv raises ValueError
\* when the query vector has another width than the rows; nothing in search
\* catches it.  A hit is (sims[i], self.metadatas[i]); row is the i it came
\* from.  embedded: _embed was called.  dim: self.dim afterwards.
IndexSearch(index, query, k, rt) ==
    IF index.vectors = <<>> \/ Len(index.texts) = 0
    THEN [raised |-> FALSE, hits |-> <<>>, dim |-> index.dim, embedded |-> FALSE]
    ELSE LET embeds == Embed(<<query>>, rt)
             qv == embeds.rows[1].v
             sims == [i \in 1..Len(index.vectors) |-> Similarity(index.vectors[i], qv)]
             idxs == SubSeq(Argsort(sims, rt.argsort), 1, Min({k, Len(sims)}))
         IN  IF index.vectors[1].width # embeds.dim
             THEN [raised |-> TRUE, hits |-> <<>>, dim |-> embeds.dim, embedded |-> TRUE]
             ELSE [raised |-> FALSE,
                   hits |-> [h \in 1..Len(idxs) |->
                                [score |-> sims[idxs[h]],
                                 metadata |-> index.metadatas[idxs[h]],
                                 row |-> idxs[h]]],
                   dim |-> embeds.dim, embedded |-> TRUE]

(***************************************************************************)
(* SynthesizerAgent                                                        *)
(***************************************************************************)
\* re.sub(r",(?=\S)", ", ", text)
SpaceAfterCommas(text) ==
    LET after(i) == IF text[i] = "," /\ i < Len(text) /\ text[i + 1] \notin Whitespace
                    THEN " " ELSE Nul
    IN  SelectSeq([k \in 1..2 * Len(text) |->
                      IF k % 2 = 1 THEN text[(k + 1) \div 2] ELSE after(k \div 2)],
                  NotNul)

\* The regex  \b(USD|EUR)(?=\d)  matches at position i.
UnitAt(text, i) ==
    /\ StartsAt(text, <<"U", "S", "D">>, i) \/ StartsAt(text, <<"E", "U", "R">>, i)
    /\ WordBoundary(text, i)
    /\ i + 3 <= Len(text)
    /\ text[i + 3] \in Digits

\* re.sub(r"\b(USD|EUR)(?=\d)", r"\1 ", text)
SpaceAfterUnits(text) ==
    LET after(i) == IF i >= 3 /\ UnitAt(text, i - 2) THEN " " ELSE Nul
    IN  SelectSeq([k \in 1..2 * Len(text) |->
                      IF k % 2 = 1 THEN text[(k + 1) \div 2] ELSE after(k \div 2)],
                  NotNul)

\* SynthesizerAgent._clean(text)
Clean(text) == Strip(SpaceAfterUnits(SpaceAfterCommas(Unescape(text))))

RECURSIVE Join(_, _)
\* sep.join(parts)
Join(sep, parts) ==
    IF parts = <<>> THEN <<>>
    ELSE IF Len(parts) = 1 THEN parts[1]
    ELSE parts[1] \o sep \o Join(sep, Tail(parts))

\* "\n".join([r.get("snippet", "") for r in overview_results if r.get("snippet")])
OverviewSnips(overview_results) ==
    Join(<<"\n">>,
         SelectSeq([i \in 1..Len(overview_results) |-> overview_results[i].snippet],
                   NonEmpty))

\* f"- {r.get('name','')}: {r.get('snippet','')} ({r.get('url','')})"
FreshLine(r) ==
    <<"-", " ">> \o r.name \o <<":", " ">> \o r.snippet \o <<" ", "(">> \o r.url \o <<")">>

FreshSnips(fresh_snippets) ==
    Join(<<"\n">>, [i \in 1..Len(fresh_snippets) |-> FreshLine(fresh_snippets[i])])

\* str(pdf_sources), the sources holding no quote character.
ListRepr(sources) ==
    <<"[">> \o Join(<<",", " ">>,
                    [i \in 1..Len(sources) |-> <<"'">> \o sources[i] \o <<"'">>])
    \o <<"]">>

\* The prompt answer() sends.  Its fixed sentences and headings are left out:
\* they contain none of ALLOWED_TOPICS and are set off by newlines, so
\* validate_question decides on the interpolated parts alone.
SynthPrompt(company, question, overview_snips, pdf_sources, fresh_snips) ==
    <<"C", "o", "m", "p", "a", "n", "y", ":", " ">> \o company
    \o <<"\n", "Q", "u", "e", "s", "t", "i", "o", "n", ":", " ">> \o question
    \o <<"\n", "\n">> \o overview_snips
    \o <<"\n", "\n">> \o ListRepr(pdf_sources)
    \o <<"\n", "\n">> \o fresh_snips \o <<"\n">>

\* list(dict.fromkeys(l)): the first occurrence of each element, in order.
FirstOfEach(l) ==
    LET keep == {i \in 1..Len(l) : \A j \in 1..(i - 1) : l[j] # l[i]}
        nth(k) == CHOOSE i \in keep : Cardinality({j \in keep : j < i}) = k - 1
    IN  [k \in 1..Cardinality(keep) |-> l[nth(k)]]

\* The  [:6]  of the sources.
MaxSources == 6

\* The sources without the  [:6].
SourcesUncapped(pdf_sources, fresh_snippets) ==
    FirstOfEach(pdf_sources \o
                SelectSeq([i \in 1..Len(fresh_snippets) |-> fresh_snippets[i].url],
                          NonEmpty))

\* list(dict.fromkeys(pdf_sources + [urls of fresh_snippets if url]))[:6]
Sources(pdf_sources, fresh_snippets) ==
    LET urls == SelectSeq([i \in 1..Len(fresh_snippets) |-> fresh_snippets[i].url],
                          NonEmpty)
        uniq == FirstOfEach(pdf_sources \o urls)
    IN  SubSeq(uniq, 1, Min({MaxSources, Len(uniq)}))

\* A test that looks at self.index alone: an object is always true.
IndexPresent(index) == TRUE

\* self.index and getattr(self.index, "vectors", None) is not None
\*            and len(self.index.texts) > 0
IndexNonEmpty(index) == index.vectors # <<>> /\ Len(index.texts) > 0

\* SynthesizerAgent.answer(company, question, overview_results, fresh_snippets)
\* with the index, the runtime and the generator as they stand.  raised: the
\* index search raised and answer() with it.  invoked: the generate_content
\* calls made.  dim: self.index.dim afterwards.  searched: self.index.search
\* was called; embedded: it called _embed.
SynthAnswer(company, question, overview_results, fresh_snippets, index, rt, vm, gen) ==
    LET nonempty == IndexNonEmpty(index)
        found == IF nonempty THEN IndexSearch(index, question, TopK, rt)
                 ELSE [raised |-> FALSE, hits |-> <<>>, dim |-> index.dim,
                       embedded |-> FALSE]
        hits == found.hits
        pdf_sources == [i \in 1..Len(hits) |-> hits[i].metadata.source]
        prompt == SynthPrompt(company, question, OverviewSnips(overview_results),
                              pdf_sources, FreshSnips(fresh_snippets))
        ans == CallGemini(vm, prompt, gen)
    IN  IF found.raised
        THEN [raised |-> TRUE, dim |-> found.dim, invoked |-> 0,
              searched |-> nonempty, embedded |-> found.embedded,
              pdf_sources |-> <<>>, resp |-> <<>>]
        ELSE [raised |-> FALSE, dim |-> found.dim, invoked |-> Len(ans.invoked),
              searched |-> nonempty, embedded |-> found.embedded,
              pdf_sources |-> pdf_sources,
              resp |-> [answer |-> Clean(ans.text),
                        sources |-> Sources(pdf_sources, fresh_snippets),
                        hits |-> hits]]

(***************************************************************************)
(* ResearchAgent.answer_multi: the retry queries                           *)
(***************************************************************************)
\* A retry without queries.
NoRefineQueries(company, user_prompt, years) == <<>>

\* refine_q of answer_multi; years is str(self.years).
RefineQueries(company, user_prompt, years) ==
    << company \o <<" ">> \o user_prompt \o
          <<" ", "l", "a", "t", "e", "s", "t", " ", "r", "e", "p", "o", "r", "t">>,
       company \o
          <<" ", "p", "r", "o", "d", "u", "c", "t", " ", "r", "e", "v", "e", "n", "u", "e", " ", "t", "a", "b", "l", "e", " ", "F", "Y", " ">> \o years,
       company \o
          <<" ", "s", "e", "g", "m", "e", "n", "t", " ", "r", "e", "v", "e", "n", "u", "e", " ", "b", "y", " ", "p", "r", "o", "d", "u", "c", "t">> >>

(***************************************************************************)
(* Inputs: what the text generator and the search provider may do          *)
(***************************************************************************)
Ok(t) == [kind |-> "ok", text |-> t]

Raises(kind) == [kind |-> kind, text |-> <<"e">>]

FailKinds == {"quota", "notfound", "error"}

\* What genai.list_models() may yield: nothing (listing failed), the
\* preferred model, another Flash model, no Flash model.
AvailableLists ==
    {<<>>,
     <<ModelsPrefix \o FLASH_CANDIDATES[3]>>,
     <<<<"m", "o", "d", "e", "l", "s", "/", "g", "e", "m", "i", "n", "i", "-", "p", "r", "o">>>>}

\* Generator behaviours in which no call succeeds.
FailingGens ==
    {[outs |-> <<Raises(k), Raises("error"), Raises("quota"), Raises("error")>>,
      available |-> av] : k \in FailKinds, av \in AvailableLists}

\* Generator behaviours whose first call raises and a later one answers t.
RecoveringGens(t) ==
    {[outs |-> [i \in 1..4 |-> IF i = 1 THEN Raises(k)
                               ELSE IF i = j THEN Ok(t) ELSE Raises("error")],
      available |-> <<>>] : k \in {"quota", "notfound"}, j \in 2..4}

\* The generator answers t at once.
AnsweringGen(t) ==
    [outs |-> <<Ok(t), Raises("error"), Raises("error"), Raises("error")>>,
     available |-> <<>>]

ForcedToFail(gen) == \A i \in 1..Len(gen.outs) : gen.outs[i].kind # "ok"

RECURSIVE JoinLines(_)
\* "\n".join(lines)
JoinLines(lines) ==
    IF lines = <<>> THEN <<>>
    ELSE IF Len(lines) = 1 THEN lines[1]
    ELSE lines[1] \o <<"\n">> \o JoinLines(Tail(lines))

(***************************************************************************)
(* Inputs of the critic: a core text, optionally with text before/after    *)
(***************************************************************************)
MaxPad == 1

PadChars == {"a", "7"}

Pads == SeqsUpTo(PadChars, MaxPad)

GrowthWasStrong ==
    <<"G", "r", "o", "w", "t", "h", " ", "w", "a", "s", " ", "s", "t", "r", "o", "n", "g">>

RevenueGrew ==
    <<"R", "e", "v", "e", "n", "u", "e", " ", "g", "r", "e", "w", " ", "i", "n", " ", "2", "0", "2", "3", " ", "t", "o", " ", "2", "0", "B">>

CriticCores ==
    {<<>>, NoAnswerMarker, GrowthWasStrong, RevenueGrew,
     <<"(", "n", "o", " ", "a", "n", "s", "w", "e", "r", ")">>,
     <<"N", "o", "t", " ", "A", "v", "a", "i", "l", "a", "b", "l", "e">>,
     <<"I", "n", " ", "1", "9", "9", "9">>,
     <<"x", "2", "0", "2", "3", "y">>,
     <<" ">>}
    \cup Range(BadMarkers)

CriticTexts == {p \o c \o q : p \in Pads, c \in CriticCores, q \in Pads}

(***************************************************************************)
(* Inputs of the planner                                                   *)
(***************************************************************************)
Acme == <<"A", "c", "m", "e">>

Companies == {Acme, <<" ", "A", "c", "m", "e", " ", "C", "o", "r", "p", " ">>}

RevenuePrompt == <<"r", "e", "v", "e", "n", "u", "e", " ", "2", "0", "2", "3">>

HelloPrompt == <<"h", "e", "l", "l", "o">>

Prompts ==
    {RevenuePrompt, HelloPrompt, <<>>,
     <<"u", "s", "e", " ", "k", "b", " ", "r", "e", "v", "e", "n", "u", "e">>,
     <<"U", "s", "e", " ", "K", "B">>,
     <<"F", "R", "O", "M", " ", "P", "D", "F", " ", "s", "a", "l", "e", "s">>,
     <<"f", "r", "o", "m", " ", "c", "a", "c", "h", "e", "d">>,
     <<"F", "r", "o", "m", " ", "O", "v", "e", "r", "v", "i", "e", "w", " ", "g", "r", "o", "w", "t", "h">>,
     <<"f", "r", "o", "m", " ", " ", "p", "d", "f">>,
     <<" ", "m", "a", "r", "k", "e", "t", " ">>}

\* The lines a generated query list is made of: empty, padded, plain.
MaxLines == 5

LineTokens == {<<>>, <<" ", "q", "1", "\t">>, <<"q", "2">>}

TwoQueries == <<"A", "c", "m", "e", " ", "r", "e", "v", "e", "n", "u", "e", " ", "2", "0", "2", "3", "\n", "A", "c", "m", "e", " ", "s", "a", "l", "e", "s">>

\* Texts without any non-blank line.
BlankTexts == {<<>>, <<" ">>, <<" ", "\n", "\t", "\r", "\n">>}

\* A few generator behaviours: failing, recovering, answering.
BasicGens ==
    FailingGens \cup RecoveringGens(TwoQueries)
    \cup {AnsweringGen(t) : t \in {TwoQueries} \cup BlankTexts}

(***************************************************************************)
(* Inputs of the retriever                                                 *)
(***************************************************************************)
MaxQueries == 4

\* gather_snippets(queries, count = 6): the hits asked of the provider per query.
HitsPerQuery == 6

DigitSeq == <<"0", "1", "2", "3", "4", "5", "6", "7", "8", "9">>

Url(n) == <<"u", DigitSeq[(n \div 10) + 1], DigitSeq[(n % 10) + 1]>>

Item(link) == [title |-> <<"t">> \o link, link |-> link, snippet |-> <<"s">>]

\* The k-th page of results: HitsPerQuery items, the last of them also the
\* first of the next page.
Block(k) ==
    [kind |-> "ok",
     items |-> [h \in 1..HitsPerQuery |-> Item(Url((k - 1) * (HitsPerQuery - 1) + h))]]

SearchRaises == [kind |-> "raise", items |-> <<>>]

NoHits == [kind |-> "ok", items |-> <<>>]

\* Two hits; HitsAB and HitsBC share one URL.
HitsAB == [kind |-> "ok", items |-> <<Item(Url(1)), Item(Url(2))>>]

HitsBC == [kind |-> "ok", items |-> <<Item(Url(2)), Item(Url(3))>>]

\* A hit without URL, a URL with surrounding blanks, a URL given twice.
HitsOdd ==
    [kind |-> "ok",
     items |-> <<Item(<<>>), Item(<<" ">> \o Url(1) \o <<" ">>), Item(Url(30)),
                 [title |-> <<"x">>, link |-> Url(30), snippet |-> <<"y">>]>>]

\* Small responses, a raising search among them.
SmallResponses == {SearchRaises, NoHits, HitsAB, HitsBC, HitsOdd}

\* Full pages: MaxQueries of them hold more than MaxSnippets URLs.
PageResponses == {Block(k) : k \in 1..4} \cup {HitsOdd}

Query(i) == <<"q", DigitSeq[i + 1]>>

(***************************************************************************)
(* Inputs of answer_multi                                                  *)
(***************************************************************************)
\* ResearchAgent(company, years = 3)
Years == 3

UseKbPrompt == <<"u", "s", "e", " ", "k", "b", " ", "r", "e", "v", "e", "n", "u", "e">>

PipelinePrompts == {RevenuePrompt, HelloPrompt, UseKbPrompt}

\* A generated answer the critic accepts; _clean changes it.
ValidAnswer == <<"R", "e", "v", "e", "n", "u", "e", " ", "g", "r", "e", "w", ",", "1", "2", "%", " ", "t", "o", " ", "U", "S", "D", "2", "0", "B", "\n">>

\* A text generator across the calls of one answer_multi: script[i] is what its
\* i-th generate_content call does, rest what every later call does.
Generator(script, rest) == [script |-> script, rest |-> rest, available |-> <<>>]

\* The stub that answers "(No answer)" once and the valid answer afterwards.
NoAnswerThenValid == Generator(<<Ok(NoAnswerMarker)>>, Ok(ValidAnswer))

\* A generator whose first text, taken as a query list for Acme and the
\* revenue prompt, is the three retry queries; "(No answer)" afterwards.
EchoesRetryQueries ==
    Generator(<<Ok(JoinLines(RefineQueries(Acme, RevenuePrompt, <<DigitSeq[Years + 1]>>)))>>,
              Ok(NoAnswerMarker))

Generators ==
    {NoAnswerThenValid,
     EchoesRetryQueries,
     Generator(<<>>, Ok(ValidAnswer)),
     Generator(<<>>, Ok(NoAnswerMarker)),
     Generator(<<>>, Ok(<<>>)),
     Generator(<<>>, Raises("error")),
     Generator(<<>>, Raises("quota")),
     Generator(<<>>, Raises("notfound"))}

\* What a call_gemini starting after pos generate_content calls will see.
GenFrom(generator, pos) ==
    [outs |-> [k \in 1..4 |-> IF pos + k <= Len(generator.script)
                              THEN generator.script[pos + k] ELSE generator.rest],
     available |-> generator.available]

\* A hit whose snippet passes the topic gate.
HitsSales ==
    [kind |-> "ok",
     items |-> <<[title |-> <<"t">>, link |-> Url(7),
                  snippet |-> <<"s", "a", "l", "e", "s", " ", "u", "p">>]>>]

\* A search provider across the calls of one answer_multi: its failAt-th call
\* raises (none when failAt = 0), every other call returns hits.
Providers == {[hits |-> h, failAt |-> f] : h \in {NoHits, HitsSales}, f \in 0..2}

\* What the provider does at calls first .. first + n - 1.
ResponsesFrom(provider, first, n) ==
    [i \in 1..n |-> IF first + i - 1 = provider.failAt THEN SearchRaises
                    ELSE provider.hits]

\* The runtime of the first run, with the embedder as given.
Runtime(embedder) == runtime @@ [embedder |-> embedder]

\* One cached PDF: its record in deep_collect.json and what extract_pdf_text
\* yields for it ("" when it raises or finds no text).
Doc(n, txt) == [url |-> Url(n), path |-> <<"p", DigitSeq[n + 1]>>, txt |-> txt]

\* The texts and metadata ensure_index_loaded and deep_collect pass to add:
\* those of the documents with text.
RECURSIVE DocTexts(_)
DocTexts(docs) ==
    IF docs = <<>> THEN <<>>
    ELSE (IF docs[1].txt # <<>> THEN <<docs[1].txt>> ELSE <<>>) \o DocTexts(Tail(docs))

RECURSIVE DocMetas(_)
DocMetas(docs) ==
    IF docs = <<>> THEN <<>>
    ELSE (IF docs[1].txt # <<>>
          THEN <<[source |-> docs[1].url, path |-> docs[1].path]>> ELSE <<>>)
         \o DocMetas(Tail(docs))

\* The index after ensure_index_loaded added one PDF embedded by the service.
LoadedIndex ==
    LET docs == <<Doc(9, <<"p", "d", "f">>)>>
    IN  IndexAdd(EmptyIndex, DocTexts(docs), DocMetas(docs),
                 [embedder |-> "ok", entropy |-> 0, argsort |-> "stable"]).index

\* The index and the embedder at the time of the call: the embedder fails only
\* after the index was loaded with its help.
IndexAndEmbedder == {<<EmptyIndex, "ok">>, <<LoadedIndex, "ok">>, <<LoadedIndex, "fails">>}

(***************************************************************************)
(* State and operations                                                    *)
(***************************************************************************)
\* _VALID_MODEL = _pick_valid_model(GEMINI_MODEL), run once at import.
LlmInit == \E av \in AvailableLists : VALID_MODEL = PickValidModel(GEMINI_MODEL, av)

CriticIdle == critic = [called |-> FALSE, answer_text |-> <<>>, result |-> FALSE]

PlannerIdle == planner = [called |-> FALSE]

RetrieverIdle == retriever = [called |-> FALSE]

\* One call critic.needs_retry(t); the agent has no fields, so nothing else changes.
CriticNeedsRetry ==
    /\ ~critic.called
    /\ \E t \in CriticTexts :
          critic' = [called |-> TRUE, answer_text |-> t, result |-> NeedsRetry(t)]
    /\ UNCHANGED <<VALID_MODEL, planner, retriever, pipeline, bench>>

PlanCall(company, user_prompt, kb_ready, gen) ==
    LET reply == CallGemini(VALID_MODEL, PlannerPrompt(company, user_prompt), gen)
    IN  planner' = [called |-> TRUE, company |-> company, user_prompt |-> user_prompt,
                    kb_ready |-> kb_ready, gen |-> gen, reply |-> reply,
                    plan |-> Plan(company, user_prompt, kb_ready, reply)]

\* One call planner.plan(company, user_prompt, kb_ready): every company, prompt
\* and kb_ready with a few generator behaviours.
PlannerPlan ==
    /\ ~planner.called
    /\ \E c \in Companies, u \in Prompts, kb \in BOOLEAN, g \in BasicGens :
          PlanCall(c, u, kb, g)
    /\ UNCHANGED <<VALID_MODEL, critic, retriever, pipeline, bench>>

\* One call planner.plan whose generator answers with up to MaxLines lines,
\* for a prompt that passes the topic gate and one that does not.
PlannerPlanLines ==
    /\ ~planner.called
    /\ \E u \in {RevenuePrompt, HelloPrompt}, ls \in SeqsUpTo(LineTokens, MaxLines) :
          PlanCall(Acme, u, TRUE, AnsweringGen(JoinLines(ls)))
    /\ UNCHANGED <<VALID_MODEL, critic, retriever, pipeline, bench>>

GatherCall(responses) ==
    LET queries == [i \in 1..Len(responses) |-> Query(i)]
    IN  retriever' = [called |-> TRUE, queries |-> queries, responses |-> responses,
                      out |-> GatherSnippets(queries, responses)]

\* One call retriever.gather_snippets(queries) with up to MaxQueries queries,
\* each search raising or returning a few hits.
RetrieverGather ==
    /\ ~retriever.called
    /\ \E n \in 0..MaxQueries : \E r \in [1..n -> SmallResponses] : GatherCall(r)
    /\ UNCHANGED <<VALID_MODEL, critic, planner, pipeline, bench>>

\* One call retriever.gather_snippets(queries), each search returning a page.
RetrieverGatherPages ==
    /\ ~retriever.called
    /\ \E n \in 1..MaxQueries : \E r \in [1..n -> PageResponses] : GatherCall(r)
    /\ UNCHANGED <<VALID_MODEL, critic, planner, pipeline, bench>>

\* The model the import selects when genai.list_models() fails.
LlmInitDefault == VALID_MODEL = PickValidModel(GEMINI_MODEL, <<>>)

NoFrame == [user_prompt |-> <<>>, kb_ready |-> FALSE, overview_results |-> <<>>,
            plan |-> <<>>, fresh_snippets |-> <<>>, resp |-> <<>>, result |-> <<>>]

\* The log of a call: generate_content calls made, queries sent to the search
\* provider, answer() calls with their outcome, needs_retry results, and the
\* calls of gather_snippets and answer in order, each with the list it got.
NoLog == [generated |-> 0, searched |-> <<>>, answers |-> <<>>, critiques |-> <<>>,
          trace |-> <<>>]

Called(op, arg) == [op |-> op, arg |-> arg]

\* No call was made on the index on its own.
NoTrial == [twin |-> EmptyIndex, adds |-> 0, allFail |-> TRUE, last |-> [op |-> "none"]]

\* One build: equal scores stay in order.
\* No call_gemini, deep_collect, generate_report_multi or UI run on its own.
OthersIdle ==
    /\ llm = [called |-> FALSE]
    /\ store = [used |-> FALSE]
    /\ report = [called |-> FALSE]
    /\ session = [started |-> FALSE]

BenchIdle ==
    /\ runtime = [argsort |-> "stable", entropy |-> 0]
    /\ trial = NoTrial
    /\ OthersIdle

\* A JSON file of the company's cache directory: missing, or holding data.
NoFile == [exists |-> FALSE, data |-> <<>>]

\* services/cache.py read_json(company, name): the data of the file, {} when
\* the file does not exist.
ReadJson(file) == IF file.exists THEN file.data ELSE <<>>

\* dict.get(key, default)
DictGet(d, key, default) == IF key \in DOMAIN d THEN d[key] ELSE default

\* basic_overview.json: not written yet, or written with one result.
Overviews ==
    {NoFile,
     [exists |-> TRUE,
      data |-> [results |-> <<[snippet |-> <<"s", "a", "l", "e", "s", " ", "u", "p">>]>>]]}

\* ResearchAgent(company) and its collaborators before answer_multi is called.
PipelineInit ==
    /\ pc = "idle"
    /\ frame = NoFrame
    /\ \E ie \in IndexAndEmbedder, g \in Generators, p \in Providers, ov \in Overviews :
          /\ agent = [company |-> Acme, years |-> <<DigitSeq[Years + 1]>>, index |-> ie[1]]
          /\ env = [generator |-> g, provider |-> p, embedder |-> ie[2],
                    overview |-> ov] @@ NoLog

\* The pipeline at rest while one agent is called on its own.
PipelineIdle ==
    /\ pc = "idle"
    /\ frame = NoFrame
    /\ agent = [company |-> Acme, years |-> <<DigitSeq[Years + 1]>>, index |-> EmptyIndex]
    /\ env = [generator |-> Generator(<<>>, Ok(<<>>)),
              provider |-> [hits |-> NoHits, failAt |-> 0], embedder |-> "ok",
              overview |-> NoFile] @@ NoLog

\* answer_multi(user_prompt, kb_ready) is called:
\*   ov = read_json(self.company, "basic_overview")
\*   overview_results = ov.get("results", [])
AnswerMulti ==
    /\ pc = "idle"
    /\ \E u \in PipelinePrompts, kb \in BOOLEAN :
          frame' = [frame EXCEPT !.user_prompt = u, !.kb_ready = kb,
                                 !.overview_results =
                                     DictGet(ReadJson(env.overview), "results", <<>>)]
    /\ pc' = "plan"
    /\ UNCHANGED <<VALID_MODEL, calls, bench, agent, env>>

\* Where answer_multi goes with a plan that skips the test of need_fresh_search.
AlwaysRetrieve(plan) == "retrieve"

\* if plan["need_fresh_search"]: gather_snippets(...), else straight to answer
AfterPlan(plan) == IF plan.need_fresh_search THEN "retrieve" ELSE "synthesize"

\* plan = self.planner.plan(self.company, user_prompt, kb_ready);
\* fresh_snippets = [];  if plan["need_fresh_search"]: ...
PlanStep ==
    /\ pc = "plan"
    /\ LET reply == CallGemini(VALID_MODEL,
                               PlannerPrompt(agent.company, frame.user_prompt),
                               GenFrom(env.generator, env.generated))
           plan == Plan(agent.company, frame.user_prompt, frame.kb_ready, reply)
       IN  /\ frame' = [frame EXCEPT !.plan = plan, !.fresh_snippets = <<>>]
           /\ env' = [env EXCEPT !.generated = @ + Len(reply.invoked)]
           /\ pc' = AfterPlan(plan)
    /\ UNCHANGED <<VALID_MODEL, calls, bench, agent>>

\* self.retriever.gather_snippets(queries) against the provider as it stands.
Gather(queries) ==
    GatherSnippets(queries, ResponsesFrom(env.provider, Len(env.searched) + 1, Len(queries)))

\* fresh_snippets = self.retriever.gather_snippets(plan["search_queries"]);
\* an exception of the search leaves answer_multi.
RetrieveStep ==
    /\ pc = "retrieve"
    /\ LET out == Gather(frame.plan.search_queries)
       IN  /\ env' = [env EXCEPT !.searched = @ \o out.sent,
                                  !.trace = Append(@, Called("gather",
                                                             frame.plan.search_queries))]
           /\ frame' = [frame EXCEPT !.fresh_snippets = out.result]
           /\ pc' = IF out.raised THEN "raised" ELSE "synthesize"
    /\ UNCHANGED <<VALID_MODEL, calls, bench, agent>>

\* self.synthesizer.answer(self.company, user_prompt, overview_results, snippets)
Synthesis(snippets) ==
    SynthAnswer(agent.company, frame.user_prompt, frame.overview_results, snippets,
                agent.index, Runtime(env.embedder), VALID_MODEL,
                GenFrom(env.generator, env.generated))

\* What a call of synthesizer.answer changes; an exception leaves answer_multi.
Synthesized(snippets, out, next) ==
    /\ agent' = [agent EXCEPT !.index.dim = out.dim]
    /\ IF out.raised
       THEN /\ env' = [env EXCEPT !.answers = Append(@, [raised |-> TRUE, resp |-> <<>>]),
                                  !.trace = Append(@, Called("answer", snippets))]
            /\ pc' = "raised"
            /\ UNCHANGED frame
       ELSE /\ env' = [env EXCEPT !.generated = @ + out.invoked,
                                  !.answers = Append(@, [raised |-> FALSE,
                                                         resp |-> out.resp]),
                                  !.trace = Append(@, Called("answer", snippets))]
            /\ frame' = [frame EXCEPT !.resp = out.resp]
            /\ pc' = next

\* resp = self.synthesizer.answer(..., fresh_snippets)
SynthesizeStep ==
    /\ pc = "synthesize"
    /\ Synthesized(frame.fresh_snippets, Synthesis(frame.fresh_snippets), "critique")
    /\ UNCHANGED <<VALID_MODEL, calls, bench>>

\* if self.critic.needs_retry(resp.get("answer", "")):
CritiqueStep ==
    /\ pc = "critique"
    /\ LET retry == NeedsRetry(frame.resp.answer)
       IN  /\ env' = [env EXCEPT !.critiques = Append(@, retry)]
           /\ pc' = IF retry THEN "retry_retrieve" ELSE "return"
    /\ UNCHANGED <<VALID_MODEL, calls, bench, agent, frame>>

\* fresh_snippets2 = self.retriever.gather_snippets(refine_q)
RetryRetrieveStep ==
    /\ pc = "retry_retrieve"
    /\ LET refine_q == RefineQueries(agent.company, frame.user_prompt, agent.years)
           out == Gather(refine_q)
       IN  /\ env' = [env EXCEPT !.searched = @ \o out.sent,
                                  !.trace = Append(@, Called("gather", refine_q))]
           /\ frame' = [frame EXCEPT !.fresh_snippets = out.result]
           /\ pc' = IF out.raised THEN "raised" ELSE "retry_synthesize"
    /\ UNCHANGED <<VALID_MODEL, calls, bench, agent>>

\* resp = self.synthesizer.answer(..., fresh_snippets2)
RetrySynthesizeStep ==
    /\ pc = "retry_synthesize"
    /\ Synthesized(frame.fresh_snippets, Synthesis(frame.fresh_snippets), "return")
    /\ UNCHANGED <<VALID_MODEL, calls, bench>>

\* resp["followups"] = plan.get("followups", []);  return resp
ReturnStep ==
    /\ pc = "return"
    /\ frame' = [frame EXCEPT !.result = frame.resp @@ [followups |-> frame.plan.followups]]
    /\ pc' = "done"
    /\ UNCHANGED <<VALID_MODEL, calls, bench, agent, env>>

Idle == CriticIdle /\ PlannerIdle /\ RetrieverIdle

(***************************************************************************)
(* call_gemini called on its own                                           *)
(***************************************************************************)
OutcomeKinds == {"ok", "quota", "notfound", "error"}

\* What the i-th generate_content call does; its text or message names i.
Outcome(kind, i) == [kind |-> kind, text |-> <<"t", DigitSeq[i + 1]>>]

\* Every way the selected model and the later calls may answer or fail.
LlmGens ==
    {[outs |-> [i \in 1..(1 + Len(FLASH_CANDIDATES)) |-> Outcome(k[i], i)],
      available |-> av] :
        k \in [1..(1 + Len(FLASH_CANDIDATES)) -> OutcomeKinds], av \in AvailableLists}

\* One call call_gemini(SYSTEM_BASE, user_prompt), on a prompt that passes
\* validate_question or on one that does not.
CallGeminiOnce ==
    /\ ~llm.called
    /\ \E u \in {RevenuePrompt, HelloPrompt}, g \in LlmGens :
          llm' = [called |-> TRUE, user_prompt |-> u, gen |-> g, selected |-> VALID_MODEL,
                  reply |-> CallGemini(VALID_MODEL, u, g)]
    /\ UNCHANGED <<VALID_MODEL, calls, pipeline, runtime, trial, store, report, session>>

InitLlm == LlmInit /\ Idle /\ PipelineIdle /\ BenchIdle

SpecLlm == InitLlm /\ [][CallGeminiOnce]_vars

\* The critic and the retriever do not read VALID_MODEL: their specifications
\* start from one outcome of the import.
InitCritic == LlmInitDefault /\ Idle /\ PipelineIdle /\ BenchIdle

SpecCritic == InitCritic /\ [][CriticNeedsRetry]_vars

InitPlanner == LlmInit /\ Idle /\ PipelineIdle /\ BenchIdle

NextPlanner == PlannerPlan \/ PlannerPlanLines

SpecPlanner == InitPlanner /\ [][NextPlanner]_vars

InitRetriever == LlmInitDefault /\ Idle /\ PipelineIdle /\ BenchIdle

NextRetriever == RetrieverGather \/ RetrieverGatherPages

SpecRetriever == InitRetriever /\ [][NextRetriever]_vars

(***************************************************************************)
(* Calls on the VectorIndex of one ResearchAgent, one by one               *)
(***************************************************************************)
\* The runtime of the second run: the same build, another entropy.
TwinRuntime(embedder) == [runtime EXCEPT !.entropy = 1] @@ [embedder |-> embedder]

Embedders == {"ok", "fails"}

\* The calls of add counted, by whatever method.
MaxAdds == 3

\* Texts handed to add directly.
AddBatches == {<<>>, << <<"a">>, <<"b">> >>}

\* The metadata handed to add with texts: the position the text will have.
BatchMetas(index, texts) ==
    [i \in 1..Len(texts) |->
        [source |-> Url(Len(index.texts) + i), path |-> texts[i]]]

\* What deep_collect.json or the crawl holds: nothing, one PDF with text and
\* one without.
DocLists == {<<>>, <<Doc(8, <<>>), Doc(9, <<"c">>)>>}

SearchQueries == {<<"a">>, <<"b">>}

SearchCounts == {0, 1, TopK}

\* add(texts, metadatas) in both runs, recorded.
Added(op, texts, metadatas, twin_metadatas, e) ==
    LET out == IndexAdd(agent.index, texts, metadatas, Runtime(e))
        twin == IndexAdd(trial.twin, texts, twin_metadatas, TwinRuntime(e))
    IN  /\ agent' = [agent EXCEPT !.index = out.index]
        /\ trial' = [twin |-> twin.index,
                     adds |-> trial.adds + 1,
                     allFail |-> trial.allFail /\ (texts = <<>> \/ e = "fails"),
                     last |-> [op |-> op, count |-> Len(texts),
                               raised |-> out.raised]]

\* self.index.add(texts, metadatas)
VectorIndexAdd ==
    /\ trial.adds < MaxAdds
    /\ \E texts \in AddBatches, e \in Embedders :
          Added("add", texts, BatchMetas(agent.index, texts),
                BatchMetas(trial.twin, texts), e)
    /\ UNCHANGED <<VALID_MODEL, calls, pc, frame, env, runtime, others>>

\* A search writes self.dim alone, which no code reads: a search that
\* follows a search or an answer finds what the first one found, so each
\* contents of the index is searched right after it was made.
Fresh == trial.last.op \notin {"search", "answer"}

\* self.index.search(query, k) in both runs, recorded.
VectorIndexSearch ==
    /\ Fresh
    /\ \E query \in SearchQueries, k \in SearchCounts, e \in Embedders :
          LET out == IndexSearch(agent.index, query, k, Runtime(e))
              twin == IndexSearch(trial.twin, query, k, TwinRuntime(e))
          IN  /\ agent' = [agent EXCEPT !.index.dim = out.dim]
              /\ trial' = [trial EXCEPT
                             !.twin.dim = twin.dim,
                             !.allFail = @ /\ (~out.embedded \/ e = "fails"),
                             !.last = [op |-> "search", query |-> query, k |-> k,
                                       embedder |-> e, raised |-> out.raised,
                                       hits |-> out.hits, twin_raised |-> twin.raised,
                                       twin_hits |-> twin.hits]]
    /\ UNCHANGED <<VALID_MODEL, calls, pc, frame, env, runtime, others>>

\* ResearchAgent.ensure_index_loaded(): nothing when the index holds texts;
\* else the documents of deep_collect.json that yield text are added.
EnsureIndexLoaded ==
    /\ trial.adds < MaxAdds
    /\ \E downloaded \in DocLists, e \in Embedders :
          IF agent.index.vectors # <<>> /\ Len(agent.index.texts) > 0
          THEN /\ trial' = [trial EXCEPT !.last = [op |-> "ensure", count |-> 0,
                                                   raised |-> FALSE]]
               /\ UNCHANGED agent
          ELSE Added("ensure", DocTexts(downloaded), DocMetas(downloaded),
                     DocMetas(downloaded), e)
    /\ UNCHANGED <<VALID_MODEL, calls, pc, frame, env, runtime, others>>

\* ResearchAgent.deep_collect(): whether the documents come from the cache or
\* from the crawl, those that yield text are added (the cache files it reads
\* and writes are not among the variables).
DeepCollect ==
    /\ trial.adds < MaxAdds
    /\ \E docs \in DocLists, e \in Embedders :
          Added("deep_collect", DocTexts(docs), DocMetas(docs), DocMetas(docs), e)
    /\ UNCHANGED <<VALID_MODEL, calls, pc, frame, env, runtime, others>>

\* self.synthesizer.answer(company, question, [], []), the generator
\* answering: answer_multi, answer_resilient and the other answer_* methods
\* reach the index through it or through self.index.search alone.
AnswerOnIndex ==
    /\ Fresh
    /\ \E e \in Embedders :
          LET out == SynthAnswer(agent.company, <<"a">>, <<>>, <<>>, agent.index,
                                 Runtime(e), VALID_MODEL, AnsweringGen(ValidAnswer))
              twin == IndexSearch(trial.twin, <<"a">>, TopK, TwinRuntime(e))
          IN  /\ agent' = [agent EXCEPT !.index.dim = out.dim]
              /\ trial' = [trial EXCEPT
                             !.twin.dim = IF out.searched THEN twin.dim ELSE @,
                             !.allFail = @ /\ (~out.embedded \/ e = "fails"),
                             !.last = [op |-> "answer", embedder |-> e,
                                       raised |-> out.raised, searched |-> out.searched,
                                       embedded |-> out.embedded, resp |-> out.resp]]
    /\ UNCHANGED <<VALID_MODEL, calls, pc, frame, env, runtime, others>>

\* The calls of deep_collect before an answer.
MaxLoads == 2

\* ResearchAgent.deep_collect() finding three PDFs with text: a second call
\* reads them from the cache and adds them again.
DeepCollectPdfs ==
    /\ trial.adds < MaxLoads
    /\ \E e \in Embedders :
          LET docs == <<Doc(1, <<"a">>), Doc(2, <<"b">>), Doc(9, <<"c">>)>>
          IN  Added("deep_collect", DocTexts(docs), DocMetas(docs), DocMetas(docs), e)
    /\ UNCHANGED <<VALID_MODEL, calls, pc, frame, env, runtime, others>>

FreshSnippet(link) == SearchResult(Item(link))

\* Snippets with the URL of a stored PDF, an empty URL and a URL twice.
MixedSnippets ==
    <<FreshSnippet(Url(9)), FreshSnippet(<<>>), FreshSnippet(Url(4)),
      FreshSnippet(Url(4)), FreshSnippet(Url(1))>>

\* Fresh snippets handed to SynthesizerAgent.answer: none; the mixed ones;
\* the mixed ones and MaxSources more URLs.
FreshLists ==
    {<<>>, MixedSnippets,
     MixedSnippets \o [i \in 1..MaxSources |-> FreshSnippet(Url(20 + i))]}

\* self.synthesizer.answer(company, question, [], fresh_snippets), the
\* generator answering.
SynthesizerAnswer ==
    /\ Fresh
    /\ \E question \in SearchQueries, fresh \in FreshLists, e \in Embedders :
          LET out == SynthAnswer(agent.company, question, <<>>, fresh, agent.index,
                                 Runtime(e), VALID_MODEL, AnsweringGen(ValidAnswer))
          IN  /\ agent' = [agent EXCEPT !.index.dim = out.dim]
              /\ trial' = [trial EXCEPT
                             !.allFail = @ /\ (~out.embedded \/ e = "fails"),
                             !.last = [op |-> "answer", question |-> question,
                                       fresh_snippets |-> fresh, embedder |-> e,
                                       raised |-> out.raised, searched |-> out.searched,
                                       embedded |-> out.embedded,
                                       pdf_sources |-> out.pdf_sources,
                                       resp |-> out.resp]]
    /\ UNCHANGED <<VALID_MODEL, calls, pc, frame, env, runtime, others>>

NextSynthesizer ==
    \/ DeepCollectPdfs
    \/ SynthesizerAnswer

\* A fresh ResearchAgent, under either build of numpy.
InitIndex ==
    /\ LlmInitDefault /\ Idle /\ PipelineIdle
    /\ runtime \in {[argsort |-> a, entropy |-> 0] : a \in {"stable", "reverse"}}
    /\ trial = NoTrial
    /\ OthersIdle

NextIndex ==
    \/ VectorIndexAdd
    \/ VectorIndexSearch
    \/ EnsureIndexLoaded
    \/ DeepCollect
    \/ AnswerOnIndex

SpecIndex == InitIndex /\ [][NextIndex]_vars

SpecSynthesizer == InitIndex /\ [][NextSynthesizer]_vars

\* One call of ResearchAgent.answer_multi, step by step.
Init == LlmInitDefault /\ Idle /\ PipelineInit /\ BenchIdle

Next ==
    \/ AnswerMulti
    \/ PlanStep
    \/ RetrieveStep
    \/ SynthesizeStep
    \/ CritiqueStep
    \/ RetryRetrieveStep
    \/ RetrySynthesizeStep
    \/ ReturnStep

Spec == Init /\ [][Next]_vars

(***************************************************************************)
(* Claims about ResearchAgent.answer_multi                                 *)
(***************************************************************************)
Ended == pc \in {"done", "raised"}

\* C1: in a call of answer_multi, answer() is invoked at most twice; a second
\* time exactly when needs_retry returned true for the first answer; and the
\* second result is returned without a further critique.
C1_AtMostOneRetry ==
    /\ Len(env.answers) <= 2
    /\ Len(env.critiques) <= 1
    /\ Ended =>
          (Len(env.answers) = 2 <=> (env.critiques = <<TRUE>>))
    /\ (pc = "done" /\ Len(env.answers) = 2) =>
          /\ frame.result.answer = env.answers[2].resp.answer
          /\ frame.result.sources = env.answers[2].resp.sources

\* No collaborator fails: the search never raises, the embedder answers.
NothingFails == env.provider.failAt = 0 /\ env.embedder = "ok"

\* C2: with the generator stubbed to return "(No answer)" on its first call
\* and a valid numeric answer afterwards, a call of answer_multi invokes the
\* synthesis twice and returns the second, valid, result.
C2_StubbedRetry ==
    (env.generator = NoAnswerThenValid /\ NothingFails /\ Ended) =>
        /\ pc = "done"
        /\ Len(env.answers) = 2
        /\ frame.result.answer = Clean(ValidAnswer)

\* C3: whatever collaborators fail, answer_multi returns a result record: no
\* exception leaves the call.
C3_NoExceptionLeaves == pc # "raised"

(***************************************************************************)
(* Claims about RetrieverAgent.gather_snippets                             *)
(***************************************************************************)
Returned == retriever.called /\ ~retriever.out.raised

\* The hits of all queries, as positions <<query, hit>> in query order.
HitPositions(responses) ==
    {p \in (1..Len(responses)) \X (1..HitsPerQuery) : p[2] <= Len(responses[p[1]].items)}

HitAt(responses, p) == SearchResult(responses[p[1]].items[p[2]])

Before(a, b) == a[1] < b[1] \/ (a[1] = b[1] /\ a[2] < b[2])

\* Positions whose URL is not empty and occurs at no earlier position.
FirstOccurrences(responses) ==
    LET P == HitPositions(responses)
    IN  {p \in P : /\ HitAt(responses, p).url # <<>>
                   /\ \A o \in P : Before(o, p) =>
                                      HitAt(responses, o).url # HitAt(responses, p).url}

\* The first MaxSnippets first occurrences, in order.
ExpectedSnippets(responses) ==
    LET F == FirstOccurrences(responses)
        nth(k) == CHOOSE p \in F : Cardinality({o \in F : Before(o, p)}) = k - 1
    IN  [k \in 1..Min({MaxSnippets, Cardinality(F)}) |-> HitAt(responses, nth(k))]

\* C4: the list gather_snippets returns has no two entries with the same URL
\* and at most 20 entries.
C4_NoDuplicateUrlAtMost20 ==
    Returned =>
        LET result == retriever.out.result
        IN  /\ Len(result) <= 20
            /\ \A i, j \in 1..Len(result) : i # j => result[i].url # result[j].url

\* C4 witness: the searches gave more than 20 distinct URLs, some of them
\* twice, and 20 entries were returned.
C4_Witness ==
    /\ Returned
    /\ Len(retriever.out.result) = 20
    /\ Cardinality(FirstOccurrences(retriever.responses)) > 20
    /\ Cardinality(HitPositions(retriever.responses))
          > Cardinality(FirstOccurrences(retriever.responses))

\* C5: gather_snippets returns exactly the first 20 of the hits of all queries
\* in query order, without the hits whose URL is empty and without the later
\* occurrences of a URL; two queries with 2 hits each and 1 shared URL give 3.
C5_FirstSeenOrderResult ==
    Returned =>
        /\ retriever.out.result = ExpectedSnippets(retriever.responses)
        /\ retriever.responses = <<HitsAB, HitsBC>> => Len(retriever.out.result) = 3

\* C5 witness: the two-query example, returning the 3 distinct hits.
C5_Witness ==
    /\ Returned
    /\ retriever.responses = <<HitsAB, HitsBC>>
    /\ retriever.out.result = WebSearchHits(HitsAB) \o <<SearchResult(Item(Url(3)))>>

\* C6: a search that raises or returns nothing for one query does not abort
\* the others: every query is sent to the provider and the hits of the other
\* queries are in the result (the failed search counting as no hits).
C6_FailingSearchDoesNotAbort ==
    retriever.called =>
        LET answered == [i \in 1..Len(retriever.responses) |->
                            IF retriever.responses[i].kind = "raise" THEN NoHits
                            ELSE retriever.responses[i]]
        IN  /\ retriever.out.sent = retriever.queries
            /\ ~retriever.out.raised
            /\ retriever.out.result = ExpectedSnippets(answered)

(***************************************************************************)
(* Claims about PlannerAgent.plan                                          *)
(***************************************************************************)
\* C7: with the text generator forced to fail, plan returns exactly 4
\* non-empty queries, each containing the company name.
C7_FallbackWhenGeneratorFails ==
    (planner.called /\ ForcedToFail(planner.gen) /\ planner.reply.invoked # <<>>) =>
        LET q == planner.plan.search_queries
        IN  /\ Len(q) = 4
            /\ \A k \in 1..Len(q) : q[k] # <<>> /\ Contains(q[k], planner.company)

\* C8: plan returns between 1 and 4 queries, and the first 4 lines in order
\* when the generator produced more than 4.
C8_BetweenOneAndFourQueries ==
    planner.called =>
        LET q == planner.plan.search_queries
            produced == NonBlankLines(planner.reply.text)
        IN  /\ Len(q) >= 1
            /\ Len(q) <= 4
            /\ Len(produced) > 4 => q = SubSeq(produced, 1, 4)

\* C8 witness: the generator produced 5 lines and 4 queries came back.
C8_Witness ==
    /\ planner.called
    /\ Len(NonBlankLines(planner.reply.text)) = 5
    /\ Len(planner.plan.search_queries) = 4

\* The prompt contains trigger, letter case ignored.
ContainsIgnoringCase(prompt, trigger) ==
    \E i \in 1..Len(prompt) :
        /\ i + Len(trigger) - 1 <= Len(prompt)
        /\ \A j \in 1..Len(trigger) : LowerChar(prompt[i + j - 1]) = trigger[j]

ClaimedTriggers ==
    {<<"u", "s", "e", " ", "k", "b">>,
     <<"f", "r", "o", "m", " ", "c", "a", "c", "h", "e", "d">>,
     <<"f", "r", "o", "m", " ", "p", "d", "f">>,
     <<"f", "r", "o", "m", " ", "o", "v", "e", "r", "v", "i", "e", "w">>}

\* C9: need_fresh_search is false exactly when kb_ready is true and the
\* lower-cased prompt contains a trigger, whatever the generator returns.
C9_NeedFreshSearch ==
    planner.called =>
        (planner.plan.need_fresh_search = FALSE
            <=> (planner.kb_ready
                 /\ \E t \in ClaimedTriggers : ContainsIgnoringCase(planner.user_prompt, t)))

\* C9 witness: kb_ready, a trigger in capitals, a failing generator: no search.
C9_Witness ==
    /\ planner.called
    /\ planner.kb_ready
    /\ planner.user_prompt = <<"F", "R", "O", "M", " ", "P", "D", "F", " ", "s", "a", "l", "e", "s">>
    /\ ForcedToFail(planner.gen)
    /\ ~planner.plan.need_fresh_search

(***************************************************************************)
(* Claims about CriticAgent.needs_retry                                    *)
(***************************************************************************)
ClaimedPlaceholders ==
    {<<"[", "I", "n", "s", "e", "r", "t">>,
     <<"C", "i", "t", "e", " ", "S", "o", "u", "r", "c", "e", "]">>,
     <<"N", "o", "t", " ", "a", "v", "a", "i", "l", "a", "b", "l", "e">>,
     <<"(", "O", "v", "e", "r", "v", "i", "e", "w", ")">>}

ClaimedNeedsRetry(text) ==
    \/ text = <<>>
    \/ Contains(text, <<"(", "N", "o", " ", "a", "n", "s", "w", "e", "r", ")">>)
    \/ \E m \in ClaimedPlaceholders : Contains(text, m)
    \/ \A i \in 1..Len(text) : text[i] \notin Digits

\* C10: needs_retry(text) is true exactly when the text is empty, contains
\* "(No answer)" or a placeholder, or has no digit; the four examples of the
\* claim come out as stated; and the call changes nothing but its result.
C10_NeedsRetryExactly ==
    /\ [](critic.called =>
            /\ critic.result = ClaimedNeedsRetry(critic.answer_text)
            /\ critic.answer_text \in {<<>>, NoAnswerMarker, GrowthWasStrong}
                  => critic.result = TRUE
            /\ critic.answer_text = RevenueGrew => critic.result = FALSE)
    /\ [][critic' # critic => UNCHANGED <<VALID_MODEL, planner, retriever, pipeline, bench>>]_vars

\* C10 witness: a text with a digit and no marker is not retried.
C10_Witness ==
    /\ critic.called
    /\ critic.answer_text = RevenueGrew
    /\ critic.result = FALSE

(***************************************************************************)
(* Claims about VectorIndex                                                *)
(***************************************************************************)
Rows(index) == Len(index.vectors)

SearchReturned == trial.last.op = "search" /\ ~trial.last.raised

\* C11: after any adds and searches, the embedder answering or failing in
\* each, the index holds as many texts as metadata records as matrix rows.
C11_CountsAgree ==
    /\ Len(agent.index.texts) = Len(agent.index.metadatas)
    /\ Len(agent.index.metadatas) = Rows(agent.index)

\* C12: a search that returns gives at most min(k, stored items) pairs, the
\* scores never increasing, each with the metadata of the chunk its score was
\* computed for; nothing on an index without items.
C12_SearchResult ==
    SearchReturned =>
        LET hits == trial.last.hits
            index == agent.index
        IN  /\ Len(hits) <= Min({trial.last.k, Len(index.texts)})
            /\ \A h \in 1..Len(hits) - 1 : ~ScoreLess(hits[h].score, hits[h + 1].score)
            /\ \A h \in 1..Len(hits) :
                  hits[h].metadata = index.metadatas[index.vectors[hits[h].row].pos]
            /\ Len(index.texts) = 0 => hits = <<>>

\* C13: add and search never raise, whichever path embedded the stored
\* chunks and whichever embeds in this call.
C13_NeverRaises ==
    trial.last.op \in {"add", "search"} => ~trial.last.raised

\* C14: the embedder failing in every call, the same adds and the same
\* search give the same result in a second run: the same scores and
\* metadata in the same order.
C14_FallbackDeterministic ==
    (trial.last.op = "search" /\ trial.allFail) =>
        /\ trial.last.raised = trial.last.twin_raised
        /\ trial.last.hits = trial.last.twin_hits

\* C14 witness: fallback vectors only, two adds, and a search with several hits.
C14_Witness ==
    /\ trial.last.op = "search"
    /\ trial.allFail
    /\ trial.last.embedder = "fails"
    /\ Len(agent.index.texts) >= 4
    /\ Len(trial.last.hits) >= 2

SameScore(s, t) == ~ScoreLess(s, t) /\ ~ScoreLess(t, s)

\* C15: of two chunks with the same score the search returns the one
\* inserted earlier first.
C15_TiesByInsertion ==
    SearchReturned =>
        \A g, h \in 1..Len(trial.last.hits) :
            (g < h /\ SameScore(trial.last.hits[g].score, trial.last.hits[h].score))
                => trial.last.hits[g].row < trial.last.hits[h].row

IsPrefix(s, t) == Len(s) <= Len(t) /\ SubSeq(t, 1, Len(s)) = s

\* C16: in every step the stored texts and metadata stay where they are and
\* none is removed; a search, an answer and an add of no texts leave texts,
\* metadata and matrix as they were.
AppendOnly ==
    /\ IsPrefix(agent.index.texts, agent'.index.texts)
    /\ IsPrefix(agent.index.metadatas, agent'.index.metadatas)
    /\ (\/ trial'.last.op \in {"search", "answer"}
        \/ trial'.last.op \in {"add", "ensure", "deep_collect"} /\ trial'.last.count = 0)
          => /\ agent'.index.texts = agent.index.texts
             /\ agent'.index.metadatas = agent.index.metadatas
             /\ agent'.index.vectors = agent.index.vectors

AnswerReturned == trial.last.op = "answer" /\ ~trial.last.raised

\* What the claim lists: the source of each hit, then the non-empty URLs of
\* the fresh snippets.
Listed ==
    LET hits == trial.last.resp.hits
        fresh == trial.last.fresh_snippets
    IN  [i \in 1..Len(hits) |-> hits[i].metadata.source]
        \o SelectSeq([i \in 1..Len(fresh) |-> fresh[i].url], NonEmpty)

FirstSeen == {i \in 1..Len(Listed) : \A j \in 1..(i - 1) : Listed[j] # Listed[i]}

\* C17: the sources returned are the hit sources followed by the non-empty
\* fresh URLs, the later duplicates removed, cut to 6: at most 6 entries,
\* none twice.
C17_Sources ==
    AnswerReturned =>
        LET sources == trial.last.resp.sources
        IN  /\ Len(sources) = Min({6, Cardinality(FirstSeen)})
            /\ \A k \in 1..Len(sources) :
                  \E i \in FirstSeen :
                      /\ Cardinality({j \in FirstSeen : j < i}) = k - 1
                      /\ sources[k] = Listed[i]
            /\ Len(sources) <= 6
            /\ \A k, m \in 1..Len(sources) : k # m => sources[k] # sources[m]

\* C17 witness: hits of one PDF stored twice, a fresh URL that is the source
\* of a hit, and more than 6 distinct sources listed.
C17_Witness ==
    /\ AnswerReturned
    /\ Len(trial.last.resp.hits) >= 2
    /\ \E g, h \in 1..Len(trial.last.resp.hits) :
          g # h /\ trial.last.resp.hits[g].metadata.source
                     = trial.last.resp.hits[h].metadata.source
    /\ Cardinality(FirstSeen) > 6
    /\ Cardinality(FirstSeen) < Len(Listed)
    /\ Len(trial.last.resp.sources) = 6

\* C18: answer searches the index, with k = 5, exactly when it holds items;
\* then at most 5 hits come back and pdf_sources are their sources in
\* order; on an empty index there are no hits, no search and no embedding.
C18_SearchIffNonEmpty ==
    trial.last.op = "answer" =>
        /\ trial.last.searched <=> Len(agent.index.texts) > 0
        /\ ~trial.last.searched => ~trial.last.embedded
        /\ ~trial.last.raised =>
              LET hits == trial.last.resp.hits
              IN  /\ Len(hits) <= 5
                  /\ trial.last.searched => Len(hits) = Min({5, Rows(agent.index)})
                  /\ ~trial.last.searched => hits = <<>>
                  /\ trial.last.pdf_sources
                        = [i \in 1..Len(hits) |-> hits[i].metadata.source]

\* C18 witness: six chunks stored, five hits returned.
C18_Witness ==
    /\ AnswerReturned
    /\ trial.last.searched
    /\ Rows(agent.index) = 6
    /\ Len(trial.last.resp.hits) = 5

\* C18 witness of the other side: an answer on the empty index.
C18_WitnessEmpty ==
    /\ AnswerReturned
    /\ agent.index = EmptyIndex
    /\ ~trial.last.searched

(***************************************************************************)
(* Claims about the retrievals of answer_multi                             *)
(***************************************************************************)
Planned == pc \notin {"idle", "plan"}

TraceOps == [i \in 1..Len(env.trace) |-> env.trace[i].op]

\* C19: gather_snippets is called before the first answer() exactly when the
\* plan has need_fresh_search, and then with the plan's search_queries;
\* without need_fresh_search the first answer() gets no fresh snippets.
C19_RetrieveIffNeeded ==
    (Planned /\ env.trace # <<>>) =>
        IF frame.plan.need_fresh_search
        THEN /\ env.trace[1] = Called("gather", frame.plan.search_queries)
             /\ Len(env.trace) >= 2 => env.trace[2].op = "answer"
        ELSE env.trace[1] = Called("answer", <<>>)

\* C19 witness: a plan with fresh search, its queries gathered, then answer().
C19_Witness ==
    /\ Planned
    /\ frame.plan.need_fresh_search
    /\ Len(env.trace) >= 2
    /\ TraceOps[1] = "gather" /\ TraceOps[2] = "answer"
    /\ Len(env.trace[1].arg) = 4

\* C19 witness of the other side: no fresh search, answer() called first.
C19_WitnessSkipped ==
    /\ Planned
    /\ ~frame.plan.need_fresh_search
    /\ Len(env.trace) >= 1
    /\ TraceOps[1] = "answer"

\* The three queries of the claim, from company, prompt and years.
ClaimedRetryQueries ==
    << Acme \o <<" ">> \o frame.user_prompt \o
          <<" ", "l", "a", "t", "e", "s", "t", " ", "r", "e", "p", "o", "r", "t">>,
       Acme \o <<" ", "p", "r", "o", "d", "u", "c", "t", " ", "r", "e", "v", "e", "n", "u", "e", " ", "t", "a", "b", "l", "e", " ", "F", "Y", " ", "3">>,
       Acme \o <<" ", "s", "e", "g", "m", "e", "n", "t", " ", "r", "e", "v", "e", "n", "u", "e", " ", "b", "y", " ", "p", "r", "o", "d", "u", "c", "t">> >>

\* The gather_snippets calls that follow an answer(): the retries.
RetryGathers == {i \in 2..Len(env.trace) : TraceOps[i] = "gather"}

FirstAttemptQueries ==
    IF env.trace # <<>> /\ TraceOps[1] = "gather" THEN Range(env.trace[1].arg) ELSE {}

\* C20: a retry gathers with exactly the 3 template queries, and they are
\* not the set of queries of the first attempt, whatever the plan held.
C20_RetryQueriesDiffer ==
    \A i \in RetryGathers :
        /\ env.trace[i].arg = ClaimedRetryQueries
        /\ Len(env.trace[i].arg) = 3
        /\ Range(env.trace[i].arg) # FirstAttemptQueries

(***************************************************************************)
(* Claims about the result and the failures of answer_multi                *)
(***************************************************************************)
ClaimedFollowups == <<
    <<"S", "h", "o", "u", "l", "d", " ", "I", " ", "c", "o", "m", "p", "a", "r", "e", " ", "t", "h", "e", " ", "l", "a", "s", "t", " ", "3", " ", "y", "e", "a", "r", "s", " ", "o", "r", " ", "f", "o", "c", "u", "s", " ", "o", "n", " ", "t", "h", "e", " ", "l", "a", "t", "e", "s", "t", " ", "y", "e", "a", "r", "?">>,
    <<"D", "o", " ", "y", "o", "u", " ", "w", "a", "n", "t", " ", "p", "r", "o", "d", "u", "c", "t", "-", "l", "e", "v", "e", "l", " ", "r", "e", "v", "e", "n", "u", "e", " ", "o", "r", " ", "s", "e", "g", "m", "e", "n", "t", "-", "l", "e", "v", "e", "l", " ", "r", "e", "v", "e", "n", "u", "e", "?">>,
    <<"S", "h", "o", "u", "l", "d", " ", "I", " ", "i", "n", "c", "l", "u", "d", "e", " ", "c", "o", "m", "p", "e", "t", "i", "t", "o", "r", " ", "b", "e", "n", "c", "h", "m", "a", "r", "k", "s", " ", "f", "o", "r", " ", "c", "o", "n", "t", "e", "x", "t", "?">> >>

\* C21: every record answer_multi returns, with or without a retry, has the
\* fields answer, sources, hits and followups, and followups is the fixed
\* list of 3 questions whatever the prompt, kb_ready and the generator were.
C21_ResultFields ==
    pc = "done" =>
        /\ DOMAIN frame.result = {"answer", "sources", "hits", "followups"}
        /\ frame.result.followups = ClaimedFollowups
        /\ Len(frame.result.followups) = 3

\* C21 witness: a record returned after a retry.
C21_Witness ==
    /\ pc = "done"
    /\ Len(env.answers) = 2
    /\ frame.kb_ready
    /\ frame.result.answer # <<>>

\* C21 witness of the other path: a record returned without a retry.
C21_WitnessNoRetry ==
    /\ pc = "done"
    /\ Len(env.answers) = 1
    /\ env.critiques = <<FALSE>>

\* C22: without a cached overview answer_multi takes the overview to be
\* empty and still plans, synthesizes, critiques and returns a result.
C22_NoOverviewStillAnswers ==
    ~env.overview.exists =>
        /\ Planned => frame.overview_results = <<>>
        /\ Ended => /\ pc = "done"
                    /\ Len(env.answers) >= 1
                    /\ Len(env.critiques) = 1

\* The strings call_gemini returns in place of an answer: they open with
\* "(LLM " or are the off-topic sentence.
FailureString(text) ==
    \/ StartsAt(text, <<"(", "L", "L", "M", " ">>, 1)
    \/ StartsAt(text, <<"(", "Y", "o", "u", "r", " ", "q", "u", "e", "s", "t", "i", "o", "n", " ", "s", "e", "e", "m", "s", " ", "u", "n", "r", "e", "l", "a", "t", "e", "d">>, 1)

FirstAnswerFailed ==
    /\ Len(env.answers) >= 1
    /\ ~env.answers[1].raised
    /\ \/ env.answers[1].resp.answer = <<>>
       \/ FailureString(env.answers[1].resp.answer)

\* C23: when the first synthesis gives an empty text or one of the failure
\* strings of call_gemini, the critic flags it and the retry is made; the
\* failure is not raised and not returned as the final answer.
C23_FailureTriggersRetry ==
    FirstAnswerFailed =>
        /\ Len(env.critiques) = 1 => env.critiques[1] = TRUE
        /\ pc = "done" => Len(env.answers) = 2

\* C24: a plan without need_fresh_search sends nothing to the search
\* provider before the first answer(); when the critic flags that answer
\* the three retry queries are gathered and the provider is called.
C24_RetryIgnoresCacheOnly ==
    (Planned /\ ~frame.plan.need_fresh_search) =>
        /\ Len(env.critiques) = 0 => env.searched = <<>>
        /\ (env.critiques = <<TRUE>> /\ pc # "retry_retrieve") =>
              /\ Len(env.trace) >= 2
              /\ env.trace[2] = Called("gather", ClaimedRetryQueries)
              /\ env.searched # <<>>
              /\ \A i \in 1..Len(env.searched) : env.searched[i] \in Range(ClaimedRetryQueries)

\* C24 witness: a cache-only plan, a flagged answer, three queries sent.
C24_Witness ==
    /\ Planned
    /\ ~frame.plan.need_fresh_search
    /\ env.critiques = <<TRUE>>
    /\ env.searched = ClaimedRetryQueries
    /\ pc = "done"

(***************************************************************************)
(* deep_collect and ensure_index_loaded on the company's cache directory   *)
(***************************************************************************)
\* The oldest file of a directory the runs start from, in days.
MaxAge == 2

\* The PDF links a run may find.
MaxLinks == 3

\* The calls of deep_collect and ensure_index_loaded in a run, after those
\* that loaded the index the run starts from.
MaxCollects == 1

\* pdf_links[:10]
MaxDownloads == 10

\* path_for(company, f"doc_{i}.pdf")
DocPath(i) == <<"d", "o", "c", "_", DigitSeq[i + 1], ".", "p", "d", "f">>

DocPaths == {DocPath(i) : i \in 1..MaxLinks}

NoPdf == [exists |-> FALSE, age |-> 0]

\* A file written age days ago.
Pdf(age) == [exists |-> TRUE, age |-> age]

NoJson == [exists |-> FALSE, age |-> 0, data |-> <<>>]

\* write_json(company, name, data), age days ago.
Json(age, data) == [exists |-> TRUE, age |-> age, data |-> data]

\* The ages of the files of the directory.
FileAges(dir) ==
    {f.age : f \in {g \in {dir.overview, dir.deep} : g.exists}}
    \cup {dir.pdfs[p].age : p \in {q \in DocPaths : dir.pdfs[q].exists}}

\* A cache that is stale from the day it reaches ttl_days.
StaleAtTtl(dir, ttl_days) ==
    \/ FileAges(dir) = {}
    \/ Min(FileAges(dir)) >= ttl_days

\* services/cache.py is_cache_stale(company, ttl_days): no file at all
\* (latest == 0.0), or the newest file older than ttl_days.
IsCacheStale(dir, ttl_days) ==
    \/ FileAges(dir) = {}
    \/ Min(FileAges(dir)) > ttl_days

\* services/cache.py prune_company_cache(company, ttl_days): the .pdf and
\* .json files with  mtime < now - ttl_days  are unlinked.
PruneCompanyCache(dir, ttl_days) ==
    [overview |-> IF dir.overview.exists /\ dir.overview.age > ttl_days
                  THEN NoJson ELSE dir.overview,
     deep |-> IF dir.deep.exists /\ dir.deep.age > ttl_days THEN NoJson ELSE dir.deep,
     pdfs |-> [p \in DocPaths |->
                  IF dir.pdfs[p].exists /\ dir.pdfs[p].age > ttl_days
                  THEN NoPdf ELSE dir.pdfs[p]]]

\* services/cache.py list_cached_downloads(company): the entries of
\* deep_collect.json whose file exists and whose url is not empty.
ListCachedDownloads(dir) ==
    SelectSeq(DictGet(ReadJson(dir.deep), "downloaded", <<>>),
              LAMBDA d : dir.pdfs[d.path].exists /\ d.url # <<>>)

\* The urls of a list of downloads.
UrlsOf(downloaded) == [i \in 1..Len(downloaded) |-> downloaded[i].url]

\* extract_pdf_text inside try/except for every entry: "" when the file is
\* missing or unreadable (fitz raises) or has no text.
Extracted(dir, downloaded, ext) ==
    [i \in 1..Len(downloaded) |->
        [url |-> downloaded[i].url, path |-> downloaded[i].path,
         txt |-> IF dir.pdfs[downloaded[i].path].exists
                 THEN ext[downloaded[i].path] ELSE <<>>]]

\* Op(v), v being computed once.
With(v, Op(_)) == CHOOSE r \in {Op(x) : x \in {v}} : TRUE

\* l[:n]
FirstN(l, n) == SubSeq(l, 1, Min({n, Len(l)}))

\* services/scrape.py find_pdf_links(url, max_links): the first max_links
\* .pdf anchors of the page, without repetitions; [] when the request fails.
FindPdfLinks(web, url, max_links) ==
    FirstOfEach(FirstN(web.static, max_links))

\* services/scrape.py dynamic_collect_links(url, max_links): the anchors
\* Selenium sees, topped up by find_pdf_links when fewer than max_links // 2;
\* find_pdf_links alone when Selenium raises.
DynamicCollectLinks(web, url, max_links) ==
    IF web.selenium = "fails" THEN FindPdfLinks(web, url, max_links)
    ELSE With(FirstOfEach(FirstN(web.dynamic, max_links)),
              LAMBDA links :
                 IF Len(links) < max_links \div 2
                 THEN With(links \o FindPdfLinks(web, url, max_links),
                           LAMBDA both : FirstN(FirstOfEach(both), max_links))
                 ELSE links)

\* The loop of deep_collect over the overview's results; budget is the
\* number of results reached before the timebox is over.
RECURSIVE Discover(_, _, _, _)
Discover(targets, pdf_links, web, budget) ==
    IF targets = <<>> \/ budget = 0 THEN pdf_links
    ELSE IF targets[1].url = <<>> THEN Discover(Tail(targets), pdf_links, web, budget - 1)
    ELSE LET found == pdf_links \o FindPdfLinks(web, targets[1].url, 5)
             more == IF Len(found) < 2
                     THEN found \o DynamicCollectLinks(web, targets[1].url, 3)
                     ELSE found
         IN  Discover(Tail(targets), more, web, budget - 1)

\* The extraction pass: every entry is extracted, those with text are handed
\* to self.index.add in one call (no call when there is none: IndexAdd).
AddExtracted(dir, index, downloaded, ext, rt) ==
    With(Extracted(dir, downloaded, ext),
         LAMBDA docs :
            With(IndexAdd(index, DocTexts(docs), DocMetas(docs), rt),
                 LAMBDA added : [docs |-> docs, raised |-> added.raised,
                                 index |-> added.index]))

\* deep_collect, the branch that reuses the cache:
\* write_json, extraction pass, return.
ReuseCached(dir, index, cached, ext, rt) ==
    LET record == [pdf_links |-> UrlsOf(cached), downloaded |-> cached]
        written == [dir EXCEPT !.deep = Json(0, record)]
    IN  With(AddExtracted(written, index, cached, ext, rt),
             LAMBDA a : [raised |-> a.raised, dir |-> written, index |-> a.index,
                         log |-> <<"list_cached_downloads", "write_json">>,
                         docs |-> a.docs,
                         returned |-> IF a.raised THEN <<>> ELSE record])

\* deep_collect, the downloads: pdf_links[:10] go to doc_1.pdf, doc_2.pdf, ...;
\* a download that ends well is listed, one broken off leaves its file.
Fetch(dir, pdf_links, web) ==
    LET tried == FirstN(pdf_links, MaxDownloads)
        dests == [i \in 1..Len(tried) |-> [path |-> DocPath(i), url |-> tried[i]]]
    IN  [tried |-> tried,
         downloaded |-> SelectSeq(dests, LAMBDA d : web.fetch[d.url] = "ok"),
         dir |-> [dir EXCEPT !.pdfs =
                    [p \in DocPaths |->
                       IF \E i \in 1..Len(tried) :
                             /\ DocPath(i) = p
                             /\ web.fetch[tried[i]] \in {"ok", "partial"}
                       THEN Pdf(0) ELSE dir.pdfs[p]]]]

\* deep_collect from  start = time.time()  on, the cache pruned or not.
CollectFresh(dir, index, web, ext, rt, log) ==
    LET targets == DictGet(ReadJson(dir.overview), "results", <<>>)
        finds == IF \E i \in 1..Min({web.budget, Len(targets)}) : targets[i].url # <<>>
                 THEN <<"find_pdf_links">> ELSE <<>>
    IN  With(With(Discover(targets, <<>>, web, web.budget), FirstOfEach),
             LAMBDA pdf_links :
                With(Fetch(dir, pdf_links, web),
                     LAMBDA f :
                        With(AddExtracted(f.dir, index, f.downloaded, ext, rt),
                             LAMBDA a :
                                LET record == [pdf_links |-> pdf_links,
                                               downloaded |-> f.downloaded]
                                    calls_made == log \o <<"collect">> \o finds
                                                  \o [i \in 1..Len(f.tried) |-> "download_file"]
                                IN  IF a.raised
                                    THEN [raised |-> TRUE, dir |-> f.dir,
                                          index |-> a.index, log |-> calls_made,
                                          docs |-> a.docs, returned |-> <<>>]
                                    ELSE [raised |-> FALSE,
                                          dir |-> [f.dir EXCEPT !.deep = Json(0, record)],
                                          index |-> a.index,
                                          log |-> calls_made \o <<"write_json">>,
                                          docs |-> a.docs, returned |-> record])))

\* ResearchAgent.deep_collect(ttl_days = ttl_days) on the directory dir and
\* the index; web is what the scrapers and downloads do, ext what
\* extract_pdf_text yields per file, rt the embedder's runtime.  ttl_days = 0
\* stands for 0 and for None.  log lists the calls that touch the cache or
\* the web, docs the documents of the extraction pass.
DeepCollectOn(dir, index, ttl_days, web, ext, rt) ==
    LET fresh == ttl_days # 0 /\ ~IsCacheStale(dir, ttl_days)
        cached == IF fresh THEN ListCachedDownloads(dir) ELSE <<>>
    IN  IF fresh /\ cached # <<>>
        THEN ReuseCached(dir, index, cached, ext, rt)
        ELSE IF ttl_days # 0
        THEN With(PruneCompanyCache(dir, ttl_days),
                  LAMBDA pruned :
                     CollectFresh(pruned, index, web, ext, rt,
                                  (IF fresh THEN <<"list_cached_downloads">> ELSE <<>>)
                                  \o <<"prune_company_cache">>))
        ELSE CollectFresh(dir, index, web, ext, rt, <<>>)

\* ResearchAgent.ensure_index_loaded(): nothing when the index holds texts or
\* deep_collect.json lists nothing; else the listed documents are extracted
\* and those with text added.
EnsureIndexLoadedOn(dir, index, ext, rt) ==
    LET downloaded == DictGet(ReadJson(dir.deep), "downloaded", <<>>)
    IN  IF (index.vectors # <<>> /\ Len(index.texts) > 0) \/ downloaded = <<>>
        THEN [raised |-> FALSE, passed |-> FALSE, index |-> index, docs |-> <<>>]
        ELSE With(AddExtracted(dir, index, downloaded, ext, rt),
                  LAMBDA a : [raised |-> a.raised, passed |-> TRUE, index |-> a.index,
                              docs |-> a.docs])

Ttls == {0, 1}

Ages == 0..MaxAge

\* The overview's results: one without url, one with.
OverviewData == [summary |-> <<"s">>, results |-> <<[url |-> <<>>], [url |-> Url(1)]>>]

\* What an earlier deep_collect listed: two downloads.
DeepData ==
    [pdf_links |-> <<Url(5), Url(6)>>,
     downloaded |-> <<[path |-> DocPath(1), url |-> Url(5)],
                      [path |-> DocPath(2), url |-> Url(6)]>>]

\* The cache directories a run starts from: each file missing or of any age;
\* doc_2.pdf, when there, as old as deep_collect.json or as old as can be.
CacheDirs ==
    {[overview |-> o, deep |-> d,
      pdfs |-> [p \in DocPaths |-> IF p = DocPath(1) THEN p1
                                   ELSE IF p = DocPath(2) THEN p2 ELSE NoPdf]] :
        o \in {NoJson} \cup {Json(a, OverviewData) : a \in Ages},
        d \in {NoJson} \cup {Json(a, DeepData) : a \in Ages},
        p1 \in {NoPdf} \cup {Pdf(a) : a \in Ages},
        p2 \in {NoPdf, Pdf(MaxAge)}}

Links == {Url(5), Url(6), Url(7)}

\* What the pages and the downloads do: no link found; two static links and
\* one more, one download failing and one broken off; one static link topped
\* up by Selenium; the timebox over after the first result.
Webs ==
    {[static |-> <<>>, selenium |-> "fails", dynamic |-> <<>>, budget |-> 2,
      fetch |-> [l \in Links |-> "ok"]],
     [static |-> <<Url(5), Url(6), Url(7), Url(5)>>, selenium |-> "ok", dynamic |-> <<>>,
      budget |-> 2,
      fetch |-> [l \in Links |-> IF l = Url(5) THEN "failed"
                                 ELSE IF l = Url(6) THEN "partial" ELSE "ok"]],
     [static |-> <<Url(5)>>, selenium |-> "ok", dynamic |-> <<Url(5), Url(6)>>,
      budget |-> 2, fetch |-> [l \in Links |-> "ok"]],
     [static |-> <<Url(5)>>, selenium |-> "ok", dynamic |-> <<Url(5), Url(6)>>,
      budget |-> 1, fetch |-> [l \in Links |-> "ok"]]}

\* What extract_pdf_text yields per file: text for each; none for doc_1.pdf;
\* none at all.
Extractions ==
    {[p \in DocPaths |-> <<"x", p[5]>>],
     [p \in DocPaths |-> IF p = DocPath(1) THEN <<>> ELSE <<"x", p[5]>>],
     [p \in DocPaths |-> <<>>]}

\* agent.deep_collect(ttl_days = ttl_days), recorded.
DeepCollectCached ==
    /\ store.used
    /\ store.calls < MaxCollects
    /\ \E ttl_days \in Ttls, web \in Webs, ext \in Extractions, e \in Embedders :
          \E out \in {DeepCollectOn(store.dir, agent.index, ttl_days, web, ext, Runtime(e))} :
              /\ agent' = [agent EXCEPT !.index = out.index]
              /\ store' = [used |-> TRUE, dir |-> out.dir, calls |-> store.calls + 1,
                           last |-> [op |-> "deep_collect", ttl_days |-> ttl_days,
                                     dir |-> store.dir, index |-> agent.index,
                                     passed |-> TRUE, docs |-> out.docs,
                                     log |-> out.log, raised |-> out.raised,
                                     returned |-> out.returned]]
    /\ UNCHANGED <<VALID_MODEL, calls, pc, frame, env, runtime, trial, llm, report, session>>

\* agent.ensure_index_loaded(), recorded.
EnsureIndexLoadedCached ==
    /\ store.used
    /\ store.calls < MaxCollects
    /\ \E ext \in Extractions, e \in Embedders :
          \E out \in {EnsureIndexLoadedOn(store.dir, agent.index, ext, Runtime(e))} :
              /\ agent' = [agent EXCEPT !.index = out.index]
              /\ store' = [store EXCEPT
                             !.calls = @ + 1,
                             !.last = [op |-> "ensure_index_loaded", dir |-> store.dir,
                                       index |-> agent.index, passed |-> out.passed,
                                       docs |-> out.docs, raised |-> out.raised]]
    /\ UNCHANGED <<VALID_MODEL, calls, pc, frame, env, runtime, trial, llm, report, session>>

NextCollect ==
    \/ DeepCollectCached
    \/ EnsureIndexLoadedCached

\* A ResearchAgent, fresh or with an index loaded by an earlier call, on any
\* of the cache directories.
InitCollect ==
    /\ LlmInitDefault /\ Idle
    /\ pc = "idle" /\ frame = NoFrame
    /\ env = [generator |-> Generator(<<>>, Ok(<<>>)),
              provider |-> [hits |-> NoHits, failAt |-> 0], embedder |-> "ok",
              overview |-> NoFile] @@ NoLog
    /\ agent \in {[company |-> Acme, years |-> <<DigitSeq[Years + 1]>>, index |-> i] :
                     i \in {EmptyIndex, LoadedIndex}}
    /\ runtime = [argsort |-> "stable", entropy |-> 0]
    /\ trial = NoTrial
    /\ llm = [called |-> FALSE] /\ report = [called |-> FALSE]
    /\ session = [started |-> FALSE]
    /\ store \in {[used |-> TRUE, dir |-> d, calls |-> 0, last |-> [op |-> "none"]] :
                     d \in CacheDirs}

SpecCollect == InitCollect /\ [][NextCollect]_vars

(***************************************************************************)
(* ResearchAgent.generate_report_multi                                     *)
(***************************************************************************)
\* services/llm.py EXPECTED_KEYS
EXPECTED_KEYS ==
    <<"Directive Response", "Overview", "Competitors", "Market Position",
      "Financial Summary", "SWOT", "Strategy", "TOP PRODUCTS TABLE", "Revenue Graph",
      "Structured Insights">>

\* The keys generate_report_multi fills in after the fallback.
OriginalKeys ==
    <<"Overview", "Competitors", "Market Position", "Financial Summary", "SWOT",
      "Strategy", "TOP PRODUCTS TABLE", "Revenue Graph", "Structured Insights">>

\* Values of a parsed JSON object: a string, null, a number.
JsonStr(t) == [type |-> "str", v |-> t]

JsonNull == [type |-> "null", v |-> <<>>]

JsonNum(digits) == [type |-> "num", v |-> digits]

\* str(value)
Str(value) == IF value.type = "null" THEN <<"N", "o", "n", "e">> ELSE value.v

\* A coerce_sections that keeps the keys the model gave.
CoerceGivenKeys(raw) ==
    [k \in DOMAIN raw \cap Range(EXPECTED_KEYS) |-> Strip(Str(raw[k]))]

\* services/llm.py coerce_sections(raw):
\*   {k: str(raw.get(k, "")).strip() for k in EXPECTED_KEYS}
CoerceSections(raw) ==
    [k \in Range(EXPECTED_KEYS) |->
        Strip(IF k \in DOMAIN raw THEN Str(raw[k]) ELSE <<>>)]

\* services/llm.py _parse_json(text) on a reply of the given form: a JSON
\* object, alone ("object") or between other text ("fenced"), is parsed; a
\* JSON array is parsed to a list; any other text gives {}.
ParseJson(doc) ==
    CASE doc.form \in {"object", "fenced"} -> [dict |-> TRUE, value |-> doc.value]
      [] doc.form = "array" -> [dict |-> FALSE, value |-> <<>>]
      [] OTHER -> [dict |-> TRUE, value |-> <<>>]

\* services/llm.py call_gemini_json(company, years, dept, directive): one
\* generate_content call on _VALID_MODEL, nothing caught; coerce_sections
\* raises AttributeError on a parsed value that is no dict.
CallGeminiJson(outcome) ==
    IF outcome.kind # "ok" THEN [raised |-> TRUE, sections |-> <<>>]
    ELSE IF ~ParseJson(outcome.doc).dict THEN [raised |-> TRUE, sections |-> <<>>]
    ELSE [raised |-> FALSE, sections |-> CoerceSections(ParseJson(outcome.doc).value)]

\* any((v or "").strip() for v in sections.values())
AnyNonBlank(sections) == \E k \in DOMAIN sections : Strip(sections[k]) # <<>>

\* The prompt build_report_sections sends.  The section list and the rules
\* between the directive and the overview are left out: the first line holds
\* "account plan", so validate_question accepts the prompt whatever follows.
ReportPrompt(company, directive, overview_text, fresh_snips) ==
    <<"C", "r", "e", "a", "t", "e", " ", "a", " ", "s", "t", "r", "u", "c", "t", "u", "r", "e", "d", " ", "a", "c", "c", "o", "u", "n", "t", " ", "p", "l", "a", "n", " ", "f", "o", "r", " ">> \o company
    \o <<".", "\n", "D", "i", "r", "e", "c", "t", "i", "v", "e", " ", "f", "r", "o", "m", " ", "u", "s", "e", "r", ":", " ">> \o directive
    \o <<"\n", "O", "v", "e", "r", "v", "i", "e", "w", ":", "\n">> \o overview_text
    \o <<"\n", "\n", "F", "r", "e", "s", "h", " ", "s", "n", "i", "p", "p", "e", "t", "s", ":", "\n">> \o fresh_snips \o <<"\n">>

\* SynthesizerAgent.build_report_sections(company, directive, overview_text,
\* fresh_snippets)
BuildReportSections(company, directive, overview_text, fresh_snippets, vm, gen) ==
    LET content == CallGemini(vm, ReportPrompt(company, directive, overview_text,
                                               FreshSnips(fresh_snippets)), gen)
    IN  [invoked |-> Len(content.invoked),
         sections |-> [k \in {"Structured Insights"} |-> Clean(content.text)]]

\* The placeholder generate_report_multi puts under "Directive Response".
DirectivePlaceholder(directive) ==
    <<"(", "D", "i", "r", "e", "c", "t", "i", "v", "e", " ", "w", "a", "s", ":", " ">> \o directive
    \o <<".", " ", "T", "h", "i", "s", " ", "b", "u", "i", "l", "d", " ", "u", "s", "e", "d", " ", "t", "h", "e", " ", "o", "l", "d", "e", "r", " ", "'", "S", "t", "r", "u", "c", "t", "u", "r", "e", "d", " ", "I", "n", "s", "i", "g", "h", "t", "s", "'", " ", "b", "u", "c", "k", "e", "t", ".", " ", "E", "d", "i", "t", " ", "t", "h", "i", "s", " ", "s", "e", "c", "t", "i", "o", "n", " ", "i", "n", " ", "t", "h", "e", " ", "U", "I", " ", "i", "f", " ", "y", "o", "u", " ", "w", "a", "n", "t", " ", "t", "o", " ", "a", "d", "d", " ", "d", "i", "r", "e", "c", "t", "i", "v", "e", "-", "s", "p", "e", "c", "i", "f", "i", "c", " ", "n", "o", "t", "e", "s", ".", ")">>

\* dict.setdefault(key, value)
SetDefault(d, key, value) == IF key \in DOMAIN d THEN d ELSE d @@ [k \in {key} |-> value]

RECURSIVE SetDefaults(_, _, _)
\* for k in keys: d.setdefault(k, value)
SetDefaults(d, keys, value) ==
    IF keys = <<>> THEN d
    ELSE SetDefaults(SetDefault(d, keys[1], value), Tail(keys), value)

\* ResearchAgent.generate_report_multi(directive).  generator.script[1] is
\* what generate_content does for call_gemini_json, the calls of call_gemini
\* follow it; provider answers the searches; overview is basic_overview.json.
GenerateReportMultiOn(company, directive, vm, generator, provider, overview) ==
    LET json == CallGeminiJson(generator.script[1])
        ov == DictGet(ReadJson(overview), "summary", <<>>)
        reply == CallGemini(vm, PlannerPrompt(company, directive), GenFrom(generator, 1))
        plan == Plan(company, directive, TRUE, reply)
        gathered == IF plan.need_fresh_search
                    THEN GatherSnippets(plan.search_queries,
                                        ResponsesFrom(provider, 1, Len(plan.search_queries)))
                    ELSE [sent |-> <<>>, result |-> <<>>, raised |-> FALSE]
        built == BuildReportSections(company, directive, ov, gathered.result, vm,
                                     GenFrom(generator, 1 + Len(reply.invoked)))
        sections == SetDefaults(SetDefault(built.sections, "Directive Response",
                                           DirectivePlaceholder(directive)),
                                OriginalKeys, <<>>)
    IN  IF ~json.raised /\ DOMAIN json.sections # {} /\ AnyNonBlank(json.sections)
        THEN [path |-> "json", raised |-> FALSE, json |-> json, searched |-> <<>>,
              sections |-> json.sections]
        ELSE IF gathered.raised
        THEN [path |-> "fallback", raised |-> TRUE, json |-> json,
              searched |-> gathered.sent, sections |-> <<>>]
        ELSE [path |-> "fallback", raised |-> FALSE, json |-> json,
              searched |-> gathered.sent, sections |-> sections]

\* What the model's reply parses to.
JsonDoc(form, value) == [kind |-> "ok", text |-> <<>>, doc |-> [form |-> form, value |-> value]]

\* A parsed object with text under every key, padded under one.
FullSections ==
    [k \in Range(EXPECTED_KEYS) |->
        IF k = "Overview" THEN JsonStr(<<" ", "o", "k", "\n">>) ELSE JsonStr(<<"x">>)]

\* What generate_content does for call_gemini_json: it raises; a full
\* object, bare or fenced; an object with one key; objects whose values are
\* all blank, or null, or a number; an object with an unknown key alone; an
\* array; text that is no JSON.
JsonReplies ==
    {Raises("error"), Raises("quota"),
     JsonDoc("object", FullSections),
     JsonDoc("fenced", FullSections),
     JsonDoc("object", [k \in {"SWOT"} |-> JsonStr(<<"s">>)]),
     JsonDoc("object", [k \in {"SWOT", "Overview"} |->
                           IF k = "SWOT" THEN JsonStr(<<" ", "\t">>) ELSE JsonStr(<<>>)]),
     JsonDoc("object", [k \in {"SWOT"} |-> JsonNull]),
     JsonDoc("object", [k \in {"Revenue Graph"} |-> JsonNum(<<"7">>)]),
     JsonDoc("object", [k \in {"Summary"} |-> JsonStr(<<"s">>)]),
     JsonDoc("array", <<>>),
     JsonDoc("prose", <<>>)}

\* What the calls of call_gemini that follow see.
ReportRests == {Ok(ValidAnswer), Ok(<<>>), Raises("error")}

Directives == {RevenuePrompt, UseKbPrompt, HelloPrompt}

\* agent.generate_report_multi(directive), called once.
GenerateReportMulti ==
    /\ ~report.called
    /\ \E directive \in Directives, j \in JsonReplies, rest \in ReportRests,
          p \in Providers, ov \in {NoJson, Json(0, OverviewData)} :
          LET out == GenerateReportMultiOn(agent.company, directive, VALID_MODEL,
                                           Generator(<<j>>, rest), p, ov)
          IN  report' = [called |-> TRUE, directive |-> directive, reply |-> j,
                         provider |-> p] @@ out
    /\ UNCHANGED <<VALID_MODEL, calls, pipeline, runtime, trial, llm, store, session>>

InitReport == LlmInitDefault /\ Idle /\ PipelineIdle /\ BenchIdle

SpecReport == InitReport /\ [][GenerateReportMulti]_vars

(***************************************************************************)
(* The chat UI: runs of ui/app_streamlit.py in one browser session         *)
(***************************************************************************)
\* The script runs of a session.
MaxRuns == 6

\* The default of the "Company name" input.
Nokia == <<"N", "o", "k", "i", "a">>

UiCompanies == {Nokia, Acme}

\* The top of every script run, company being the value of the input:
\*   if "agent" not in st.session_state or ctx_company != company:
\*       agent = ResearchAgent(company, years, dept); ctx_company = company
\*   _init_state()   (setdefault: kb_ready False on the first run only)
\* Agents are numbered as they are created; collected holds the agents on
\* which deep_collect was run to its end.
SessionSetup(sess, company) ==
    IF ~sess.started
    THEN [started |-> TRUE, company |-> company, ctx_company |-> company, agent |-> 1,
          created |-> 1, kb_ready |-> FALSE, collected |-> {}, runs |-> 1,
          last |-> [op |-> "none"]]
    ELSE IF sess.ctx_company # company
    THEN [sess EXCEPT !.company = company, !.ctx_company = company,
                      !.agent = sess.created + 1, !.created = @ + 1, !.runs = @ + 1]
    ELSE [sess EXCEPT !.company = company, !.runs = @ + 1]

\* The page is opened: the first run, no button pressed.
SessionOpened ==
    /\ ~session.started
    /\ session' = SessionSetup(session, Nokia)
    /\ UNCHANGED <<VALID_MODEL, calls, pipeline, runtime, trial, llm, store, report>>

\* The user edits the company name: a run with the new value.
CompanyChanged ==
    /\ session.started /\ session.runs < MaxRuns
    /\ \E company \in UiCompanies \ {session.company} :
          session' = [SessionSetup(session, company) EXCEPT !.last = [op |-> "none"]]
    /\ UNCHANGED <<VALID_MODEL, calls, pipeline, runtime, trial, llm, store, report>>

\* The user presses "Deep Analysis": agent.deep_collect(ttl_days) returns and
\* kb_ready is set, or it raises and the flag stays.
DeepAnalysisClicked ==
    /\ session.started /\ session.runs < MaxRuns
    /\ \E raised \in BOOLEAN :
          LET sess == SessionSetup(session, session.company)
          IN  session' = [sess EXCEPT
                            !.kb_ready = IF raised THEN @ ELSE TRUE,
                            !.collected = IF raised THEN @ ELSE @ \cup {sess.agent},
                            !.last = [op |-> "deep_collect", agent |-> sess.agent,
                                      raised |-> raised]]
    /\ UNCHANGED <<VALID_MODEL, calls, pipeline, runtime, trial, llm, store, report>>

\* The user sends a chat prompt:
\*   agent.answer_multi(prompt, kb_ready=st.session_state["kb_ready"])
ChatPromptSent ==
    /\ session.started /\ session.runs < MaxRuns
    /\ LET sess == SessionSetup(session, session.company)
       IN  session' = [sess EXCEPT
                         !.last = [op |-> "answer_multi", agent |-> sess.agent,
                                   company |-> sess.ctx_company,
                                   kb_ready |-> sess.kb_ready]]
    /\ UNCHANGED <<VALID_MODEL, calls, pipeline, runtime, trial, llm, store, report>>

NextSession ==
    \/ SessionOpened
    \/ CompanyChanged
    \/ DeepAnalysisClicked
    \/ ChatPromptSent

InitSession == LlmInitDefault /\ Idle /\ PipelineIdle /\ BenchIdle

SpecSession == InitSession /\ [][NextSession]_vars

(***************************************************************************)
(* Claims about call_gemini                                                *)
(***************************************************************************)
Generated == llm.called /\ llm.reply.invoked # <<>>

FirstOutcome == llm.gen.outs[1]

\* C25: on "model not found" call_gemini resolves the model once more and
\* calls the resolved model once, returning its text or an error string;
\* on every other call nothing is resolved; _VALID_MODEL stays as it was.
C25_ReresolveOnNotFound ==
    /\ [](llm.called =>
            /\ llm.reply.picks = (IF Generated /\ FirstOutcome.kind = "notfound" THEN 1 ELSE 0)
            /\ (Generated /\ FirstOutcome.kind = "notfound") =>
                  /\ Len(llm.reply.invoked) = 2
                  /\ llm.reply.invoked[1] = llm.selected
                  /\ llm.reply.invoked[2] = PickValidModel(GEMINI_MODEL, llm.gen.available)
                  /\ IF llm.gen.outs[2].kind = "ok"
                     THEN llm.reply.text = llm.gen.outs[2].text
                     ELSE StartsAt(llm.reply.text, <<"(", "L", "L", "M", " ", "4", "0", "4", ":">>, 1)
            /\ VALID_MODEL = llm.selected)
    /\ [][VALID_MODEL' = VALID_MODEL]_vars

\* C25 witness: not found, the model listed under another name, the retry answers.
C25_Witness ==
    /\ Generated
    /\ FirstOutcome.kind = "notfound"
    /\ llm.reply.invoked[2] # llm.reply.invoked[1]
    /\ llm.reply.text = llm.gen.outs[2].text
    /\ llm.gen.outs[2].kind = "ok"

ClaimedCandidates == <<
    <<"m", "o", "d", "e", "l", "s", "/", "g", "e", "m", "i", "n", "i", "-", "1", ".", "5", "-", "f", "l", "a", "s", "h", "-", "l", "a", "t", "e", "s", "t">>,
    <<"m", "o", "d", "e", "l", "s", "/", "g", "e", "m", "i", "n", "i", "-", "2", ".", "0", "-", "f", "l", "a", "s", "h">>,
    <<"m", "o", "d", "e", "l", "s", "/", "g", "e", "m", "i", "n", "i", "-", "f", "l", "a", "s", "h", "-", "l", "a", "t", "e", "s", "t">> >>

\* The candidates that answer, by position in the list.
Answering == {k \in 1..3 : llm.gen.outs[k + 1].kind = "ok"}

\* C26: on a quota error of the selected model the candidates are called in
\* the listed order, each at most once, up to the first that answers, whose
\* text is returned; the quota marker is returned only when none answers.
C26_QuotaFallbackInOrder ==
    (Generated /\ FirstOutcome.kind = "quota") =>
        LET tried == Tail(llm.reply.invoked)
        IN  /\ llm.reply.invoked[1] = llm.selected
            /\ IF Answering = {}
               THEN /\ tried = ClaimedCandidates
                    /\ StartsAt(llm.reply.text,
                                <<"(", "L", "L", "M", " ", "4", "2", "9", ":", " ", "q", "u", "o", "t", "a", " ", "e", "x", "c", "e", "e", "d", "e", "d">>, 1)
               ELSE /\ tried = SubSeq(ClaimedCandidates, 1, Min(Answering))
                    /\ llm.reply.text = llm.gen.outs[Min(Answering) + 1].text
            /\ \A i, j \in 1..Len(tried) : i # j => tried[i] # tried[j]

\* C26 witness: quota, the first candidate fails, the second answers, the
\* third would have answered too.
C26_Witness ==
    /\ Generated
    /\ FirstOutcome.kind = "quota"
    /\ Answering = {2, 3}
    /\ Len(llm.reply.invoked) = 3
    /\ llm.reply.text = llm.gen.outs[3].text

(***************************************************************************)
(* Claims about deep_collect and ensure_index_loaded                       *)
(***************************************************************************)
Collected == store.used /\ store.last.op = "deep_collect"

\* Some file of the directory is at most ttl_days old.
NewestWithin(dir, ttl_days) ==
    \/ dir.overview.exists /\ dir.overview.age <= ttl_days
    \/ dir.deep.exists /\ dir.deep.age <= ttl_days
    \/ \E p \in DOMAIN dir.pdfs : dir.pdfs[p].exists /\ dir.pdfs[p].age <= ttl_days

\* The downloads deep_collect.json lists whose file is on disk.
ListedOnDisk(dir) ==
    IF dir.deep.exists
    THEN SelectSeq(dir.deep.data.downloaded, LAMBDA d : dir.pdfs[d.path].exists)
    ELSE <<>>

\* The call went without pruning, link discovery or download, and what it
\* returned, if it returned, are the cached downloads.
ReusedCache ==
    /\ Range(store.last.log) \cap
         {"prune_company_cache", "collect", "find_pdf_links", "download_file"} = {}
    /\ ~store.last.raised => store.last.returned.downloaded = ListedOnDisk(store.last.dir)
    /\ store.dir.pdfs = store.last.dir.pdfs
    /\ store.dir.overview = store.last.dir.overview

\* The call pruned first and collected afresh after.
PrunedThenCollected ==
    /\ \E i, j \in 1..Len(store.last.log) :
          /\ i < j
          /\ store.last.log[i] = "prune_company_cache"
          /\ store.last.log[j] = "collect"
          /\ \A k \in 1..(i - 1) : store.last.log[k] = "list_cached_downloads"
    /\ \A a \in FileAges(store.dir) : a <= store.last.ttl_days

\* C27: deep_collect reuses the cached downloads, without discovery,
\* download or pruning, exactly when ttl_days is non-zero, the newest file
\* of the cache directory is at most ttl_days old and some download listed
\* in deep_collect.json is on disk; otherwise, with a non-zero ttl_days, it
\* prunes and then collects afresh.
C27_ReuseIffFresh ==
    Collected =>
        LET reusable == /\ store.last.ttl_days # 0
                        /\ NewestWithin(store.last.dir, store.last.ttl_days)
                        /\ ListedOnDisk(store.last.dir) # <<>>
        IN  /\ ReusedCache <=> reusable
            /\ (~reusable /\ store.last.ttl_days # 0) => PrunedThenCollected

\* C27 witness: the cache reused on the last day of the ttl, and a listed
\* PDF with it that is older still.
C27_Witness ==
    /\ Collected /\ ReusedCache
    /\ store.last.ttl_days = 1
    /\ store.last.dir.overview.exists /\ store.last.dir.overview.age = 1
    /\ \A a \in FileAges(store.last.dir) : a >= 1
    /\ store.last.dir.pdfs[DocPath(1)] = Pdf(2)

\* C27, the other side: a listed PDF on disk but every file too old.
C27_WitnessStale ==
    /\ Collected /\ ~ReusedCache /\ PrunedThenCollected
    /\ ListedOnDisk(store.last.dir) # <<>>
    /\ store.last.ttl_days = 1

Passed == store.used /\ store.last.op \in {"deep_collect", "ensure_index_loaded"}
          /\ store.last.passed

\* The texts of the documents whose extraction gave text, in their order.
TextsWithText(docs) ==
    SelectSeq([i \in 1..Len(docs) |-> docs[i].txt], LAMBDA t : t # <<>>)

\* C28: after the extraction pass of deep_collect or ensure_index_loaded the
\* index holds one more chunk per document with text, in document order, and
\* the call has not raised.
C28_FailedExtractionSkipped ==
    Passed =>
        /\ ~store.last.raised
        /\ agent.index.texts = store.last.index.texts \o TextsWithText(store.last.docs)
        /\ Len(agent.index.metadatas) = Len(agent.index.texts)
        /\ Len(agent.index.vectors) = Len(agent.index.texts)

(***************************************************************************)
(* Claims about generate_report_multi                                      *)
(***************************************************************************)
ClaimedSectionKeys ==
    {"Directive Response", "Overview", "Competitors", "Market Position",
     "Financial Summary", "SWOT", "Strategy", "TOP PRODUCTS TABLE", "Revenue Graph",
     "Structured Insights"}

\* The JSON call returned, with a value that is not blank.
JsonSucceeded ==
    /\ ~report.json.raised
    /\ \E k \in DOMAIN report.json.sections :
          \E i \in 1..Len(report.json.sections[k]) :
             report.json.sections[k][i] \notin Whitespace

\* C29: generate_report_multi returns the JSON sections when the JSON call
\* succeeded with a value that is not blank, takes the planner / retriever /
\* synthesizer path only when the call raised or every value was blank, and
\* whatever map it returns holds the ten section keys.
C29_ReportSections ==
    report.called =>
        /\ JsonSucceeded =>
              /\ report.path = "json" /\ ~report.raised
              /\ report.sections = report.json.sections
        /\ report.path = "fallback" => ~JsonSucceeded
        /\ ~report.raised => DOMAIN report.sections = ClaimedSectionKeys

\* C29 witness: every value of the JSON reply blank, the fallback returning
\* its one section, the placeholder and the empty rest.
C29_Witness ==
    /\ report.called /\ ~report.raised
    /\ report.path = "fallback"
    /\ ~report.json.raised
    /\ report.sections["Structured Insights"] # <<>>
    /\ report.sections["Directive Response"] # <<>>
    /\ report.sections["SWOT"] = <<>>

\* C29, the JSON path: one key given, nine filled in.
C29_WitnessJson ==
    /\ report.called /\ report.path = "json"
    /\ report.sections["SWOT"] = <<"s">>
    /\ report.sections["Overview"] = <<>>

(***************************************************************************)
(* Claims about the chat UI                                                *)
(***************************************************************************)
\* C30: whenever kb_ready is true the session's agent is one on which
\* deep_collect was run, and answer_multi is never handed kb_ready = True on
\* an agent on which it was not.
C30_KbReadyFollowsAgent ==
    session.started =>
        /\ session.kb_ready => session.agent \in session.collected
        /\ (session.last.op = "answer_multi" /\ session.last.kb_ready)
              => session.last.agent \in session.collected

=============================================================================
